---- MODULE Spec2Model ----
(***************************************************************************)
(* WebBot gateway (vincentwuxi/openclaw, website-bot-module): the chat     *)
(* turn of GatewayServer.handleChatSend driving AgentRunner.run, the file  *)
(* tools, the SnapshotStore and the ChangeLog.                             *)
(*                                                                         *)
(* Paths.  A path segment is a sequence of tokens (pieces of a file name,  *)
(* each standing for the characters it is written with); a relative path   *)
(* is a sequence of segments; an absolute path is the sequence of segments *)
(* below "/".  PathString spells an absolute path out as the token string  *)
(* Node's path.resolve returns, so that String.startsWith is a real prefix *)
(* test on strings and not a test on segments.                             *)
(*                                                                         *)
(* Texts.  A text is the sequence of its lines, content.split("\n"): the   *)
(* empty string is the one-line text <<"">>.                               *)
(***************************************************************************)
EXTENDS Naturals, Sequences, FiniteSets, TLC

(***************************************************************************)
(* Bounds of the model.                                                    *)
(***************************************************************************)
MaxInv == 2          \* chat.send requests issued in one run
MaxCalls == 1        \* tool calls dispatched over all turns of one run
MaxDirect == 1       \* file.write / snapshot.rollback requests in one run
MaxId == 2           \* size of the space the 8-character ids are drawn from
MaxToolRuns == 2     \* tool executions in one run of the tool specification
MaxPrior == 1        \* snapshots already in the store when a round trip starts
MaxLines == 3        \* lines of a text handed to computeDiff
MaxRounds == 2       \* backend responses after which the backend asks for no more tools
MaxChunks == 3       \* chunks of one backend response
MaxConns == 2        \* client sockets
MaxReqs == 2         \* frames the clients send
MaxTicks == 2        \* heartbeat ticks
MaxEntries == 3         \* entries appended to the change log and the snapshot index
MaxClock == 2           \* milliseconds the clock advances

(***************************************************************************)
(* Path layer: node:path resolve / relative / basename, String.startsWith  *)
(***************************************************************************)
DOT == <<".">>
DOTDOT == <<"..">>

\* config.workspace: the directory /w
Workspace == << <<"w">> >>

RECURSIVE NormalizeFrom(_, _)
\* path.resolve's normalisation: "." is dropped, ".." removes the last
\* segment (and is dropped at the root), anything else is appended.
NormalizeFrom(acc, segs) ==
    IF segs = <<>> THEN acc
    ELSE LET s == Head(segs) IN
         IF s = DOT THEN NormalizeFrom(acc, Tail(segs))
         ELSE IF s = DOTDOT
              THEN NormalizeFrom(IF acc = <<>> THEN acc
                                 ELSE SubSeq(acc, 1, Len(acc) - 1), Tail(segs))
              ELSE NormalizeFrom(Append(acc, s), Tail(segs))

\* path.resolve(workspace, rel) for a relative rel
Resolve(base, rel) == NormalizeFrom(base, rel)

RECURSIVE PathString(_)
\* the string of an absolute path: "/" seg "/" seg ...
PathString(abs) ==
    IF abs = <<>> THEN <<>>
    ELSE <<"/">> \o Head(abs) \o PathString(Tail(abs))

\* String.prototype.startsWith
StartsWith(s, p) == Len(p) <= Len(s) /\ SubSeq(s, 1, Len(p)) = p

\* the tools' sandbox test: absolutePath.startsWith(path.resolve(workspace))
PassesSandboxCheck(abs) == StartsWith(PathString(abs), PathString(Workspace))

\* what the sandbox is meant to decide: abs is the root or lies below it
InsideWorkspace(abs) ==
    Len(abs) >= Len(Workspace) /\ SubSeq(abs, 1, Len(Workspace)) = Workspace

RECURSIVE CommonPrefixLen(_, _)
CommonPrefixLen(a, b) ==
    IF a = <<>> \/ b = <<>> \/ Head(a) # Head(b) THEN 0
    ELSE 1 + CommonPrefixLen(Tail(a), Tail(b))

\* path.relative(from, to) for absolute from, to
Relative(from, to) ==
    LET k == CommonPrefixLen(from, to) IN
    [i \in 1..(Len(from) - k) |-> DOTDOT] \o SubSeq(to, k + 1, Len(to))

\* path.basename of the string as the caller wrote it (not resolved)
Basename(rel) == IF rel = <<>> THEN <<>> ELSE rel[Len(rel)]

\* path.dirname of an absolute path
Dirname(abs) == IF abs = <<>> THEN abs ELSE SubSeq(abs, 1, Len(abs) - 1)

RECURSIVE JoinSegs(_)
\* relativePath.replace(/[/\\]/g, "__")
JoinSegs(rel) ==
    IF rel = <<>> THEN <<>>
    ELSE IF Len(rel) = 1 THEN Head(rel)
    ELSE Head(rel) \o <<"__">> \o JoinSegs(Tail(rel))

SafeFileName(rel) == JoinSegs(rel)

(***************************************************************************)
(* Protected-name policy                                                   *)
(***************************************************************************)
\* PROTECTED_PATTERNS tested on the basename: /^\.env/i, /\.key$/i,
\* /\.pem$/i, /credential/i, /secret/i, /password/i
MatchesProtectedPattern(name) ==
    \/ (name # <<>> /\ Head(name) = ".env")
    \/ (name # <<>> /\ name[Len(name)] \in {".key", ".pem"})
    \/ \E k \in 1..Len(name) : name[k] \in {"credential", "secret", "password"}

IsProtectedFile(rel) == MatchesProtectedPattern(Basename(rel))

\* PROTECTED_DIRS: some segment of the path as written is node_modules or .git
IsProtectedDir(rel) ==
    \E k \in 1..Len(rel) : rel[k] \in { <<"node_modules">>, <<".git">> }

(***************************************************************************)
(* The filesystem: a function from the absolute paths of the existing      *)
(* regular files to their texts.  A directory exists when it is the root,  *)
(* the workspace, or an ancestor of an existing file (every writer below   *)
(* creates the parent directories first, mkdir {recursive: true}).         *)
(***************************************************************************)
Exists(fsys, abs) == abs \in DOMAIN fsys

IsDirectory(fsys, abs) ==
    \/ abs = <<>>
    \/ abs = Workspace
    \/ \E f \in DOMAIN fsys : Len(f) > Len(abs) /\ SubSeq(f, 1, Len(abs)) = abs

\* fs.writeFile / fs.writeFileSync
WriteFile(fsys, abs, text) == (abs :> text) @@ fsys

\* fs.unlink
Unlink(fsys, abs) == [f \in (DOMAIN fsys) \ {abs} |-> fsys[f]]

\* mkdir {recursive: true} of the parent fails when a regular file is in the way
AncestorIsFile(fsys, abs) ==
    \E k \in 1..(Len(abs) - 1) : SubSeq(abs, 1, k) \in DOMAIN fsys

(***************************************************************************)
(* Text and bytes.  A text is a sequence of lines; a line is a string of   *)
(* UTF-16 code units, and a file holds the bytes of some encoding.  The    *)
(* "utf-8" writer turns an unpaired surrogate into U+FFFD, the "utf-8"     *)
(* reader turns a byte sequence that is no UTF-8 into U+FFFD.              *)
(***************************************************************************)
LoneSurrogate == "\\uD800"
InvalidByte == "\\xFF"
Replacement == "\\uFFFD"

\* fs.writeFile(path, content, "utf-8")
Utf8Encode(text) ==
    [k \in 1..Len(text) |-> IF text[k] = LoneSurrogate THEN Replacement ELSE text[k]]

\* fs.readFile(path, "utf-8")
Utf8Decode(bytes) ==
    [k \in 1..Len(bytes) |-> IF bytes[k] = InvalidByte THEN Replacement ELSE bytes[k]]

WellFormed(text) == \A k \in 1..Len(text) : text[k] # LoneSurrogate

(***************************************************************************)
(* Tool inputs and results.  An input is the parsed argument object; a     *)
(* missing property is Undef.  A result carries success or an error.       *)
(***************************************************************************)
Undef == << <<"undefined">> >>
NoText == <<>>

Falsy(p) == p = Undef \/ p = <<>>

ToolInput(p, np, c) == [path |-> p, newPath |-> np, content |-> c]

Ok(extra) == [success |-> TRUE, error |-> "", created |-> extra.created, content |-> extra.content]
Err(e) == [success |-> FALSE, error |-> e, created |-> FALSE, content |-> NoText]
NoExtra == [created |-> FALSE, content |-> NoText]

\* file_write before its first await: resolve, sandbox test, protected test
FileWritePre(input) ==
    IF input.path = Undef THEN "Thrown"
    ELSE IF ~PassesSandboxCheck(Resolve(Workspace, input.path)) THEN "PathEscape"
    ELSE IF IsProtectedFile(input.path) THEN "Protected"
    ELSE "ok"

\* file_write from mkdir on: access (isNew), writeFile
FileWriteIO(fsys, input) ==
    LET abs == Resolve(Workspace, input.path) IN
    IF IsDirectory(fsys, abs) \/ AncestorIsFile(fsys, abs)
    THEN [fs |-> fsys, res |-> Err("IOError")]
    ELSE [fs |-> WriteFile(fsys, abs, Utf8Encode(input.content)),
          res |-> Ok([created |-> ~Exists(fsys, abs), content |-> NoText])]

\* file_delete before its first await
FileDeletePre(input) ==
    IF input.path = Undef THEN "Thrown"
    ELSE IF ~PassesSandboxCheck(Resolve(Workspace, input.path)) THEN "PathEscape"
    ELSE IF IsProtectedFile(input.path) THEN "Protected"
    ELSE IF IsProtectedDir(input.path) THEN "ProtectedDir"
    ELSE "ok"

\* file_delete: stat, unlink
FileDeleteIO(fsys, input) ==
    LET abs == Resolve(Workspace, input.path) IN
    IF IsDirectory(fsys, abs) THEN [fs |-> fsys, res |-> Err("NotAFile")]
    ELSE IF ~Exists(fsys, abs) THEN [fs |-> fsys, res |-> Err("NotFound")]
    ELSE [fs |-> Unlink(fsys, abs), res |-> Ok(NoExtra)]

\* file_rename before its first await (input.path is oldPath)
FileRenamePre(input) ==
    IF input.path = Undef \/ input.newPath = Undef THEN "Thrown"
    ELSE IF ~PassesSandboxCheck(Resolve(Workspace, input.path)) THEN "PathEscape"
    ELSE IF ~PassesSandboxCheck(Resolve(Workspace, input.newPath)) THEN "PathEscape"
    ELSE "ok"

\* file_rename that copies: the source stays in place
FileRenameIO_Copy(fsys, input) ==
    LET old == Resolve(Workspace, input.path)
        new == Resolve(Workspace, input.newPath) IN
    IF IsDirectory(fsys, old) THEN [fs |-> fsys, res |-> Err("NotAFile")]
    ELSE IF ~Exists(fsys, old) THEN [fs |-> fsys, res |-> Err("NotFound")]
    ELSE IF Exists(fsys, new) \/ IsDirectory(fsys, new)
         THEN [fs |-> fsys, res |-> Err("Exists")]
    ELSE [fs |-> WriteFile(fsys, new, fsys[old]), res |-> Ok(NoExtra)]

\* file_rename: stat source, access destination, mkdir, rename
FileRenameIO(fsys, input) ==
    LET old == Resolve(Workspace, input.path)
        new == Resolve(Workspace, input.newPath) IN
    IF IsDirectory(fsys, old) THEN [fs |-> fsys, res |-> Err("NotAFile")]
    ELSE IF ~Exists(fsys, old) THEN [fs |-> fsys, res |-> Err("NotFound")]
    ELSE IF Exists(fsys, new) \/ IsDirectory(fsys, new)
         THEN [fs |-> fsys, res |-> Err("Exists")]
    ELSE IF AncestorIsFile(fsys, new) THEN [fs |-> fsys, res |-> Err("IOError")]
    ELSE [fs |-> WriteFile(Unlink(fsys, old), new, fsys[old]), res |-> Ok(NoExtra)]

\* file_read, file_diff, file_list before their first await
SandboxOnlyPre(input) ==
    IF input.path = Undef THEN "Thrown"
    ELSE IF ~PassesSandboxCheck(Resolve(Workspace, input.path)) THEN "PathEscape"
    ELSE "ok"

\* file_read that takes an empty content for a missing file
FileReadIO_EmptyIsMissing(fsys, input) ==
    LET abs == Resolve(Workspace, input.path) IN
    IF IsDirectory(fsys, abs) THEN [fs |-> fsys, res |-> Err("NotAFile")]
    ELSE IF ~Exists(fsys, abs) \/ fsys[abs] = <<"">> THEN [fs |-> fsys, res |-> Err("NotFound")]
    ELSE [fs |-> fsys, res |-> Ok([created |-> FALSE, content |-> Utf8Decode(fsys[abs])])]

\* file_read of the whole file: stat, readFile
FileReadIO(fsys, input) ==
    LET abs == Resolve(Workspace, input.path) IN
    IF IsDirectory(fsys, abs) THEN [fs |-> fsys, res |-> Err("NotAFile")]
    ELSE IF ~Exists(fsys, abs) THEN [fs |-> fsys, res |-> Err("NotFound")]
    ELSE [fs |-> fsys, res |-> Ok([created |-> FALSE, content |-> Utf8Decode(fsys[abs])])]

\* file_diff: readFile (a missing file is a new file), never an error
FileDiffIO(fsys, input) == [fs |-> fsys, res |-> Ok(NoExtra)]

\* file_list: stat, readdir
FileListIO(fsys, input) ==
    LET abs == Resolve(Workspace, input.path) IN
    IF Exists(fsys, abs) THEN [fs |-> fsys, res |-> Err("NotADirectory")]
    ELSE IF ~IsDirectory(fsys, abs) THEN [fs |-> fsys, res |-> Err("NotFound")]
    ELSE [fs |-> fsys, res |-> Ok(NoExtra)]

\* file_search has no sandbox test: path.join(workspace, searchPath, "**/*")
FileSearchPre(input) == "ok"

\* file_search: globby below the joined directory, readFile of every match
FileSearchIO(fsys, input) == [fs |-> fsys, res |-> Ok(NoExtra)]

\* the files file_search reads: every file below path.join(workspace, path)
FileSearchReads(fsys, input) ==
    LET dir == Resolve(Workspace, IF input.path = Undef THEN <<>> ELSE input.path) IN
    {f \in DOMAIN fsys : Len(f) > Len(dir) /\ SubSeq(f, 1, Len(dir)) = dir}

AllTools == {"file_read", "file_write", "file_delete", "file_rename",
             "file_list", "file_search", "file_diff"}

\* the part of execute that runs before the first await
ToolPre(tool, input) ==
    CASE tool = "file_write" -> FileWritePre(input)
      [] tool = "file_delete" -> FileDeletePre(input)
      [] tool = "file_rename" -> FileRenamePre(input)
      [] tool = "file_search" -> FileSearchPre(input)
      [] OTHER -> SandboxOnlyPre(input)

\* the rest of execute: the filesystem calls and the result
ToolIO(tool, fsys, input) ==
    CASE tool = "file_write" -> FileWriteIO(fsys, input)
      [] tool = "file_delete" -> FileDeleteIO(fsys, input)
      [] tool = "file_rename" -> FileRenameIO(fsys, input)
      [] tool = "file_read" -> FileReadIO(fsys, input)
      [] tool = "file_diff" -> FileDiffIO(fsys, input)
      [] tool = "file_list" -> FileListIO(fsys, input)
      [] OTHER -> FileSearchIO(fsys, input)

\* execute as a whole, for a caller that awaits it without interleaving
ToolExecute(tool, fsys, input) ==
    LET pre == ToolPre(tool, input) IN
    IF pre # "ok" THEN [fs |-> fsys, res |-> Err(pre)] ELSE ToolIO(tool, fsys, input)

\* the files a tool's execute reads (stat, access, readFile)
ToolReads(tool, fsys, input) ==
    IF ToolPre(tool, input) # "ok" THEN {}
    ELSE IF tool = "file_search" THEN FileSearchReads(fsys, input)
    ELSE {Resolve(Workspace, input.path)} \cap DOMAIN fsys

\* createToolRegistry: the tools the gateway hands to the AgentRunner
RegisteredTools == {"file_read", "file_write", "file_search", "file_list"}

(***************************************************************************)
(* SnapshotStore: the index (entries, in push order) and the content blobs *)
(* baseDir/<sessionId>/<id>_<safeFileName>, keyed by those three parts.    *)
(***************************************************************************)
EmptyStore == [entries |-> <<>>, blobs |-> <<>>]

BlobKey(sessionId, id, relativePath) == <<sessionId, id, SafeFileName(relativePath)>>

\* SnapshotStore.save with the id randomUUID().slice(0, 8) produced; the
\* result is the store after the call (unchanged when save returns null)
SnapshotSave(store, fsys, sessionId, absolutePath, action, id) ==
    IF ~Exists(fsys, absolutePath)
    THEN store
    ELSE LET relativePath == Relative(Workspace, absolutePath)
             entry == [id |-> id, sessionId |-> sessionId,
                       filePath |-> relativePath,
                       absolutePath |-> absolutePath, action |-> action]
         IN [entries |-> Append(store.entries, entry),
             blobs |-> (BlobKey(sessionId, id, relativePath) :> fsys[absolutePath])
                        @@ store.blobs]

\* whether save creates an entry (it returns null otherwise)
SnapshotSaves(fsys, absolutePath) == Exists(fsys, absolutePath)

\* entries.find((e) => e.id === snapshotId): the index of the first match, 0 if none
FindEntry(entries, snapshotId) ==
    IF \E k \in 1..Len(entries) : entries[k].id = snapshotId
    THEN CHOOSE k \in 1..Len(entries) :
            /\ entries[k].id = snapshotId
            /\ \A j \in 1..(k - 1) : entries[j].id # snapshotId
    ELSE 0

\* SnapshotStore.getContent: the blob of the entry found, NoText for null
GetContent(store, snapshotId) ==
    LET k == FindEntry(store.entries, snapshotId) IN
    IF k = 0 THEN NoText
    ELSE LET e == store.entries[k]
             key == BlobKey(e.sessionId, snapshotId, e.filePath) IN
         IF key \in DOMAIN store.blobs THEN store.blobs[key] ELSE NoText

\* SnapshotStore.rollback: the filesystem after the call and the result
Rollback(store, fsys, snapshotId) ==
    LET k == FindEntry(store.entries, snapshotId)
        content == GetContent(store, snapshotId) IN
    IF k = 0 THEN [fs |-> fsys, success |-> FALSE, filePath |-> Undef]
    ELSE IF content = NoText THEN [fs |-> fsys, success |-> FALSE, filePath |-> Undef]
    ELSE IF IsDirectory(fsys, store.entries[k].absolutePath)
         THEN [fs |-> fsys, success |-> FALSE, filePath |-> Undef]
    ELSE [fs |-> WriteFile(fsys, store.entries[k].absolutePath, content),
          success |-> TRUE, filePath |-> store.entries[k].filePath]

\* ids are opaque: a new id is named by the least number not yet in use
\* (or repeats one in use, when randomUUID().slice(0, 8) repeats itself)
IdAllowed(st, id) ==
    \A j \in 1..(id - 1) : \E k \in 1..Len(st.entries) : st.entries[k].id = j

(***************************************************************************)
(* The gateway's side effects around a tool call                           *)
(***************************************************************************)
DestructiveTools == {"file_write", "file_delete", "file_rename"}

\* actionMap of the tool.call branch
SnapshotAction(tool) ==
    CASE tool = "file_write" -> "before_write"
      [] tool = "file_delete" -> "before_delete"
      [] OTHER -> "before_rename"

\* actionMap of the tool.result branch
ChangeAction(tool) ==
    CASE tool = "file_write" -> "write"
      [] tool = "file_delete" -> "delete"
      [] OTHER -> "rename"

\* CallsSnapshotSave with file_write missing from the list of destructive tools
CallsSnapshotSave_NoWrite(tool, input) ==
    tool \in {"file_delete", "file_rename"} /\ ~(input.path = Undef \/ input.path = <<>>)

\* tool.call branch: whether snapshotStore.save is called for this call
\* (filePath = toolInput.path || toolInput.oldPath must be truthy)
CallsSnapshotSave(tool, input) == tool \in DestructiveTools /\ ~Falsy(input.path)

\* tool.call branch: the store after the event has been handled
SnapshotStep(store, fsys, sessionId, tool, input, id) ==
    IF CallsSnapshotSave(tool, input)
    THEN SnapshotSave(store, fsys, sessionId, Resolve(Workspace, input.path),
                      SnapshotAction(tool), id)
    ELSE store

\* AppendsChange without the test of toolOutput.success
AppendsChange_AnyResult(tool, result) == tool \in DestructiveTools

\* tool.result branch: whether a change-log entry is appended and the
\* preview.reload event is sent
AppendsChange(tool, result) == result.success /\ tool \in DestructiveTools

\* tool.result branch: the change log after the event has been handled
ChangeLogStep(log, sessionId, tool, input, result) ==
    IF AppendsChange(tool, result)
    THEN Append(log, [sessionId |-> sessionId, action |-> ChangeAction(tool),
                      filePath |-> IF Falsy(input.path) THEN <<<<"unknown">>>> ELSE input.path,
                      newFilePath |-> input.newPath])
    ELSE log

(***************************************************************************)
(* Inputs of the model                                                     *)
(***************************************************************************)
SessionIds == {"main", "s2"}
Invocations == 1..MaxInv
SnapshotIds == 1..MaxId

TextX == <<"X">>
TextY == <<"Y">>
TextEmpty == <<"">>

PathA == << <<"a">> >>                        \* a
PathB == << <<"b">> >>                        \* b
PathEnv == << <<".env">> >>                   \* .env
PathOut == << DOTDOT, <<"o">> >>              \* ../o
PathSibling == << DOTDOT, <<"w", "x">>, <<"a">> >>   \* ../wx/a
\* a path property that is not a string (a number), which path.resolve rejects
NotAString == << <<"number">> >>

\* stands for an arguments string that is no JSON (cut off in the stream)
Unparseable == << <<"{\"path\": \"a">> >>

\* JSON.parse(toolCall.arguments || "{}") throws a SyntaxError
JsonParseThrows(input) == input.path = Unparseable

\* the tool calls the backend may ask for in a chat turn; file_copy is a
\* name no tool has
ChatCalls ==
    {[tool |-> "file_write", input |-> ToolInput(p, Undef, TextY)] :
        p \in {PathA, PathEnv, PathOut, NotAString}}
    \cup {[tool |-> "file_delete", input |-> ToolInput(PathEnv, Undef, NoText)],
          [tool |-> "file_read", input |-> ToolInput(PathA, Undef, NoText)],
          [tool |-> "file_read", input |-> ToolInput(Unparseable, Undef, NoText)],
          [tool |-> "file_copy", input |-> ToolInput(PathA, PathB, NoText)]}

NoCall == [tool |-> "none", input |-> ToolInput(Undef, Undef, NoText)]
NoResult == Err("none")

\* the workspace and its surroundings when the gateway starts
InitialFs ==
    (Resolve(Workspace, PathA) :> TextX) @@ (Resolve(Workspace, PathEnv) :> TextX)
    @@ (Resolve(Workspace, PathOut) :> TextX)

(***************************************************************************)
(* State                                                                   *)
(***************************************************************************)
VARIABLES
    fs,            \* the filesystem
    store,         \* SnapshotStore: entries and blobs
    changeLog,     \* ChangeLog.entries
    busySessions,  \* GatewayServer.busySessions
    sessions,      \* GatewayServer.sessions: session id -> roles of its messages
    pc,            \* where each chat.send invocation stands
    sess,          \* its sessionId
    call,          \* the tool call its agent loop is dispatching
    res,           \* that call's toolResult
    steps,         \* what has happened for that call, in order
    evDone,        \* chat {type: done} events sent to its connection
    evError,       \* chat {type: error} events sent to its connection
    resp,          \* the response frame sent for the request
    nCalls,        \* tool calls dispatched so far
    nDirect,       \* file.write / snapshot.rollback requests handled so far
    rt,            \* the caller's place in a scripted sequence of store and tool calls
    app,           \* a pure function's arguments and the value it returned
    wire,          \* each chat.send's socket: open or not, tool events sent over it
    loop,          \* AgentRunner.run: the locals of its while loop
    conn,          \* the gateway's client sockets and the frames they sent
    saved,         \* SessionStore: the session files, session id -> roles of its messages
    audit          \* ChangeLog and SnapshotStore as lists: entries in memory and on disk

vars == <<fs, store, changeLog, busySessions, sessions, pc, sess, call, res,
          steps, evDone, evError, resp, nCalls, nDirect, rt, app, wire, loop, conn, saved, audit>>

NoApp == [op |-> "none", old |-> <<>>, new |-> <<>>, out |-> <<>>]

NoWire == [i \in Invocations |-> [open |-> TRUE, calls |-> 0, results |-> 0]]

NoLoop == [state |-> "none"]

NoConn == <<>>

\* log, index: ChangeLog.entries and SnapshotStore.entries; logFile,
\* indexFile: changelog.json and index.json; appended, snapshots: the entries
\* in the order append and save created them; out: what list returned
NoAudit == [log |-> <<>>, logFile |-> <<>>, index |-> <<>>, indexFile |-> <<>>,
            appended |-> <<>>, snapshots |-> <<>>, clock |-> 0, out |-> <<>>]

NoScript == [stage |-> "none", p |-> Undef, x |-> NoText, id |-> 0]

turnVars == <<call, res, steps>>

\* the locals of a turn are gone when handleChatSend returns
DropLocals(i) ==
    /\ call' = [call EXCEPT ![i] = NoCall]
    /\ res' = [res EXCEPT ![i] = NoResult]
    /\ steps' = [steps EXCEPT ![i] = <<>>]
auditVars == <<store, changeLog>>

InFlight(i) == pc[i] \in {"stream", "called", "io", "result"}

Init ==
    /\ fs = InitialFs
    /\ store = EmptyStore
    /\ changeLog = <<>>
    /\ busySessions = {}
    /\ sessions = <<>>
    /\ pc = [i \in Invocations |-> "idle"]
    /\ sess = [i \in Invocations |-> "main"]
    /\ call = [i \in Invocations |-> NoCall]
    /\ res = [i \in Invocations |-> NoResult]
    /\ steps = [i \in Invocations |-> <<>>]
    /\ evDone = [i \in Invocations |-> 0]
    /\ evError = [i \in Invocations |-> 0]
    /\ resp = [i \in Invocations |-> "none"]
    /\ nCalls = 0
    /\ nDirect = 0
    /\ rt = NoScript
    /\ app = NoApp
    /\ wire = NoWire
    /\ loop = NoLoop
    /\ conn = NoConn
    /\ saved = <<>>
    /\ audit = NoAudit

(***************************************************************************)
(* handleChatSend                                                          *)
(***************************************************************************)
\* IsBusy with the guard left out
IsBusy_NoGuard(busy, sessionId) == FALSE

\* the concurrency guard: this.busySessions.has(sessionId)
IsBusy(busy, sessionId) == sessionId \in busy

\* get or create the session, push the user message
WithUserMessage(sess_map, sessionId) ==
    IF sessionId \in DOMAIN sess_map
    THEN [sess_map EXCEPT ![sessionId] = Append(@, "user")]
    ELSE (sessionId :> <<"user">>) @@ sess_map

\* session.messages.push of the assistant message after the loop
WithAssistantMessage(sess_map, sessionId) ==
    [sess_map EXCEPT ![sessionId] = Append(@, "assistant")]

\* a finally block that empties the whole set
Release_All(busy, sessionId) == {}

\* the finally block: this.busySessions.delete(sessionId)
Release(busy, sessionId) == busy \ {sessionId}

\* RejectBusy with the throw moved inside the try, so that finally runs
RejectBusy_InsideTry(i, sessionId) ==
    /\ pc' = [pc EXCEPT ![i] = "rejected"]
    /\ sess' = [sess EXCEPT ![i] = sessionId]
    /\ resp' = [resp EXCEPT ![i] = "error"]
    /\ busySessions' = busySessions \ {sessionId}
    /\ UNCHANGED <<fs, auditVars, saved, sessions, turnVars, evDone, evError, nCalls, nDirect, rt, app, wire, loop, conn, audit>>

\* the busy branch: the throw before the try, answered by handleMessage's
\* catch with an error response; nothing else is touched
RejectBusy(i, sessionId) ==
    /\ pc' = [pc EXCEPT ![i] = "rejected"]
    /\ sess' = [sess EXCEPT ![i] = sessionId]
    /\ resp' = [resp EXCEPT ![i] = "error"]
    /\ UNCHANGED <<fs, auditVars, saved, busySessions, sessions, turnVars,
                   evDone, evError, nCalls, nDirect, rt, app, wire, loop, conn, audit>>

\* the accepted branch up to the first await (the backend request)
Accept(i, sessionId) ==
    /\ busySessions' = busySessions \cup {sessionId}
    /\ sessions' = WithUserMessage(sessions, sessionId)
    /\ pc' = [pc EXCEPT ![i] = "stream"]
    /\ sess' = [sess EXCEPT ![i] = sessionId]
    /\ UNCHANGED <<fs, auditVars, saved, turnVars, evDone, evError, resp, nCalls, nDirect, rt, app, wire, loop, conn, audit>>

\* invocations are numbered in the order their requests arrive
HandleChatSend(i, sessionId) ==
    /\ pc[i] = "idle"
    /\ \A j \in 1..(i - 1) : pc[j] # "idle"
    /\ IF IsBusy(busySessions, sessionId)
       THEN RejectBusy(i, sessionId)
       ELSE Accept(i, sessionId)

\* ws.send on a socket that is no longer open drops the frame and returns
SendThrows(open) == FALSE

\* sessionStore.save(session): the session's file is rewritten
SessionSave(disk, sess_map, sessionId) ==
    IF sessionId \in DOMAIN disk
    THEN [disk EXCEPT ![sessionId] = sess_map[sessionId]]
    ELSE (sessionId :> sess_map[sessionId]) @@ disk

\* the loop ended without an exception: assistant message, done event,
\* sessionStore.save (not reached when sending done throws), finally, response
FinishTurn(i, errors) ==
    /\ sessions' = WithAssistantMessage(sessions, sess[i])
    /\ saved' = IF SendThrows(wire[i].open)
                THEN saved
                ELSE SessionSave(saved, WithAssistantMessage(sessions, sess[i]), sess[i])
    /\ evError' = [evError EXCEPT ![i] = @ + errors]
    /\ evDone' = [evDone EXCEPT ![i] = @ + 1]
    /\ busySessions' = Release(busySessions, sess[i])
    /\ resp' = [resp EXCEPT ![i] = "result"]
    /\ pc' = [pc EXCEPT ![i] = "finished"]

\* AbortTurn with the release in the try body instead of a finally block
AbortTurn_NoFinally(i) ==
    /\ evError' = [evError EXCEPT ![i] = @ + 1]
    /\ resp' = [resp EXCEPT ![i] = "result"]
    /\ pc' = [pc EXCEPT ![i] = "finished"]
    /\ UNCHANGED <<sessions, saved, evDone, busySessions>>

\* an exception inside the try: the catch sends the error event, finally, response
AbortTurn(i) ==
    /\ evError' = [evError EXCEPT ![i] = @ + 1]
    /\ busySessions' = Release(busySessions, sess[i])
    /\ resp' = [resp EXCEPT ![i] = "result"]
    /\ pc' = [pc EXCEPT ![i] = "finished"]
    /\ UNCHANGED <<sessions, saved, evDone>>

\* the response ends without tool use: the generator returns
BackendEnd(i) ==
    /\ pc[i] = "stream"
    /\ FinishTurn(i, 0)
    /\ DropLocals(i)
    /\ UNCHANGED <<fs, auditVars, sess, nCalls, nDirect, rt, app, wire, loop, conn, audit>>

\* BackendFail with a retry: the error event is sent and the loop asks again
BackendFail_Retry(i) ==
    /\ pc[i] = "stream"
    /\ evError' = [evError EXCEPT ![i] = @ + 1]
    /\ UNCHANGED <<fs, auditVars, saved, busySessions, sessions, pc, sess, turnVars,
                   evDone, resp, nCalls, nDirect, rt, app, wire, loop, conn, audit>>

\* the backend request or its stream throws: run's catch yields the error
\* event, which the gateway forwards, and returns
BackendFail(i) ==
    /\ pc[i] = "stream"
    /\ FinishTurn(i, 1)
    /\ DropLocals(i)
    /\ UNCHANGED <<fs, auditVars, sess, nCalls, nDirect, rt, app, wire, loop, conn, audit>>

\* path.resolve in the tool.call branch throws on a truthy non-string path
GatewayThrows(tool, input) == CallsSnapshotSave(tool, input) /\ input.path = NotAString

\* a tool call is complete: executeToolCall parses the arguments for the
\* tool.call event (a SyntaxError there leaves executeToolCall and lands in
\* run's catch, which yields the error event and returns), yields tool.call,
\* and the gateway handles the event (snapshot step, toolCalls.push)
ToolCallEvent(i, c, id) ==
    /\ pc[i] = "stream"
    /\ nCalls < MaxCalls
    /\ IdAllowed(store, id)
    /\ nCalls' = nCalls + 1
    /\ IF JsonParseThrows(c.input)
       THEN /\ FinishTurn(i, 1)
            /\ DropLocals(i)
            /\ UNCHANGED <<fs, auditVars, sess, nDirect, rt, app, wire, loop, conn, audit>>
       ELSE IF GatewayThrows(c.tool, c.input)
       THEN /\ AbortTurn(i)
            /\ DropLocals(i)
            /\ wire' = [wire EXCEPT ![i].calls = @ + 1]
            /\ UNCHANGED <<fs, auditVars, sess, nDirect, rt, app, loop, conn, audit>>
       ELSE /\ store' = SnapshotStep(store, fs, sess[i], c.tool, c.input, id)
            /\ call' = [call EXCEPT ![i] = c]
            /\ res' = [res EXCEPT ![i] = NoResult]
            /\ steps' = [steps EXCEPT ![i] =
                            IF CallsSnapshotSave(c.tool, c.input) THEN <<"save">> ELSE <<>>]
            /\ pc' = [pc EXCEPT ![i] = "called"]
            /\ wire' = [wire EXCEPT ![i].calls = @ + 1]
            /\ UNCHANGED <<fs, changeLog, saved, busySessions, sessions, sess,
                           evDone, evError, resp, nDirect, rt, app, loop, conn, audit>>

\* an unknown tool reported as a success
UnknownToolResult_Silent == Ok(NoExtra)

\* toolResult = { error: `Unknown tool: ${toolCall.name}` }
UnknownToolResult == Err("UnknownTool")

\* executeToolCall resumes: toolsMap.get, then execute up to its first await
ToolExecBegin(i) ==
    /\ pc[i] = "called"
    /\ IF call[i].tool \notin RegisteredTools
       THEN /\ res' = [res EXCEPT ![i] = UnknownToolResult]
            /\ pc' = [pc EXCEPT ![i] = "result"]
            /\ UNCHANGED steps
       ELSE /\ steps' = [steps EXCEPT ![i] = Append(@, "execute")]
            /\ IF ToolPre(call[i].tool, call[i].input) # "ok"
               THEN /\ res' = [res EXCEPT ![i] = Err(ToolPre(call[i].tool, call[i].input))]
                    /\ pc' = [pc EXCEPT ![i] = "result"]
               ELSE /\ pc' = [pc EXCEPT ![i] = "io"]
                    /\ UNCHANGED res
    /\ UNCHANGED <<fs, auditVars, saved, busySessions, sessions, sess, call,
                   evDone, evError, resp, nCalls, nDirect, rt, app, wire, loop, conn, audit>>

\* the tool's filesystem calls complete and execute returns
ToolExecIO(i) ==
    /\ pc[i] = "io"
    /\ LET r == ToolIO(call[i].tool, fs, call[i].input) IN
       /\ fs' = r.fs
       /\ res' = [res EXCEPT ![i] = r.res]
       /\ steps' = [steps EXCEPT ![i] =
                       IF r.res.success THEN Append(@, "success") ELSE @]
    /\ pc' = [pc EXCEPT ![i] = "result"]
    /\ UNCHANGED <<auditVars, saved, busySessions, sessions, sess, call,
                   evDone, evError, resp, nCalls, nDirect, rt, app, wire, loop, conn, audit>>

\* executeToolCall yields tool.result, the gateway handles the event
\* (toolResults.push, change log, preview.reload), and executeToolCall pushes
\* the call and its result onto the backend messages; the loop goes on
ToolResultEvent(i) ==
    /\ pc[i] = "result"
    /\ changeLog' = ChangeLogStep(changeLog, sess[i], call[i].tool, call[i].input, res[i])
    /\ steps' = [steps EXCEPT ![i] =
                    IF AppendsChange(call[i].tool, res[i])
                    THEN @ \o <<"log", "reload", "context">>
                    ELSE Append(@, "context")]
    /\ pc' = [pc EXCEPT ![i] = "stream"]
    /\ wire' = [wire EXCEPT ![i].results = @ + 1]
    /\ UNCHANGED <<fs, store, saved, busySessions, sessions, sess, call, res,
                   evDone, evError, resp, nCalls, nDirect, rt, app, loop, conn, audit>>

(***************************************************************************)
(* Requests answered without an agent loop                                 *)
(***************************************************************************)
\* file.write: handleFileWrite runs the file_write tool, sessionId "system"
HandleFileWrite(p, text) ==
    /\ nDirect < MaxDirect
    /\ nDirect' = nDirect + 1
    /\ fs' = ToolExecute("file_write", fs, ToolInput(p, Undef, text)).fs
    /\ UNCHANGED <<auditVars, saved, busySessions, sessions, pc, sess, turnVars,
                   evDone, evError, resp, nCalls, rt, app, wire, loop, conn, audit>>

\* snapshot.rollback: rollback, then a change-log entry on success
HandleSnapshotRollback(id) ==
    /\ nDirect < MaxDirect
    /\ nDirect' = nDirect + 1
    /\ LET r == Rollback(store, fs, id) IN
       /\ fs' = r.fs
       /\ changeLog' = IF r.success
                       THEN Append(changeLog, [sessionId |-> "main", action |-> "write",
                                               filePath |-> r.filePath, newFilePath |-> Undef])
                       ELSE changeLog
    /\ UNCHANGED <<store, saved, busySessions, sessions, pc, sess, turnVars,
                   evDone, evError, resp, nCalls, rt, app, wire, loop, conn, audit>>

\* session.clear: an existing session loses its messages, gets a new
\* updatedAt and is saved; there is no test of busySessions
HandleSessionClear(sessionId) ==
    /\ nDirect < MaxDirect
    /\ nDirect' = nDirect + 1
    /\ sessions' = IF sessionId \in DOMAIN sessions
                   THEN [sessions EXCEPT ![sessionId] = <<>>]
                   ELSE sessions
    /\ saved' = IF sessionId \in DOMAIN sessions
                THEN SessionSave(saved, [sessions EXCEPT ![sessionId] = <<>>], sessionId)
                ELSE saved
    /\ UNCHANGED <<fs, auditVars, busySessions, pc, sess, turnVars,
                   evDone, evError, resp, nCalls, rt, app, wire, loop, conn, audit>>

\* the client's socket closes while its chat.send is in flight: the close
\* handler forgets the connection, nothing reaches handleChatSend
ClientClose(i) ==
    /\ InFlight(i)
    /\ wire[i].open
    /\ wire' = [wire EXCEPT ![i].open = FALSE]
    /\ UNCHANGED <<fs, auditVars, saved, busySessions, sessions, pc, sess, turnVars,
                   evDone, evError, resp, nCalls, nDirect, rt, app, loop, conn, audit>>

Next ==
    \/ \E i \in Invocations, s \in SessionIds : HandleChatSend(i, s)
    \/ \E i \in Invocations : BackendEnd(i)
    \/ \E i \in Invocations : BackendFail(i)
    \/ \E i \in Invocations, c \in ChatCalls, id \in SnapshotIds : ToolCallEvent(i, c, id)
    \/ \E i \in Invocations : ToolExecBegin(i)
    \/ \E i \in Invocations : ToolExecIO(i)
    \/ \E i \in Invocations : ToolResultEvent(i)
    \/ \E text \in {TextX, TextY} : HandleFileWrite(PathA, text)
    \/ \E id \in SnapshotIds : HandleSnapshotRollback(id)
    \/ \E s \in SessionIds : HandleSessionClear(s)
    \/ \E i \in Invocations : ClientClose(i)

Spec == Init /\ [][Next]_vars

(***************************************************************************)
(* The tools on their own: execute applied to any tool and input           *)
(***************************************************************************)
PathUnderA == << <<"a">>, <<"b">> >>              \* a/b
TextLone == << LoneSurrogate >>                   \* one line, an unpaired surrogate
ParentDir == << DOTDOT >>                         \* ..
SiblingDir == << DOTDOT, <<"w", "x">> >>          \* ../wx
PathEnvDot == << <<".env">>, DOT >>               \* .env/.
PathEnvVia == << <<"x">>, DOTDOT, <<".env">> >>   \* x/../.env

ToolInputs(tool) ==
    CASE tool = "file_write" ->
            {ToolInput(p, Undef, c) :
                p \in {PathA, PathB, PathEnv, PathOut, PathSibling, PathUnderA,
                       PathEnvDot, PathEnvVia},
                c \in {TextX, TextY, TextEmpty, TextLone}}
      [] tool = "file_diff" ->
            {ToolInput(p, Undef, c) :
                p \in {PathA, PathB, PathEnv, PathOut, PathSibling}, c \in {TextX, TextY}}
      [] tool = "file_rename" ->
            {ToolInput(p, np, NoText) :
                p \in {PathA, PathB, PathEnv, PathOut, PathSibling},
                np \in {PathA, PathB, PathEnv, PathOut, PathSibling, PathUnderA}}
      [] tool \in {"file_list", "file_search"} ->
            {ToolInput(p, Undef, NoText) : p \in {Undef, <<>>, ParentDir, SiblingDir}}
      [] OTHER ->
            {ToolInput(p, Undef, NoText) :
                p \in {PathA, PathB, PathEnv, PathOut, PathSibling}}

\* the workspace /w, the file /o above it and the sibling directory /wx,
\* whose file is no UTF-8 text
ToolFs == (Resolve(Workspace, PathSibling) :> << InvalidByte >>) @@ InitialFs

ToolInit ==
    /\ fs = ToolFs
    /\ store = EmptyStore
    /\ changeLog = <<>>
    /\ busySessions = {}
    /\ sessions = <<>>
    /\ pc = [i \in Invocations |-> "idle"]
    /\ sess = [i \in Invocations |-> "main"]
    /\ call = [i \in Invocations |-> NoCall]
    /\ res = [i \in Invocations |-> NoResult]
    /\ steps = [i \in Invocations |-> <<>>]
    /\ evDone = [i \in Invocations |-> 0]
    /\ evError = [i \in Invocations |-> 0]
    /\ resp = [i \in Invocations |-> "none"]
    /\ nCalls = 0
    /\ nDirect = 0
    /\ rt = [NoScript EXCEPT !.stage = "tools"]
    /\ app = NoApp
    /\ wire = NoWire
    /\ loop = NoLoop
    /\ conn = NoConn
    /\ saved = <<>>
    /\ audit = NoAudit

\* tool.execute(input, {workspace, sessionId}) awaited by its caller; call[1]
\* and res[1] are this call and its result, call[2] and res[2] the ones before
ToolRun(tool, input) ==
    /\ rt.stage = "tools"
    /\ nCalls < MaxToolRuns
    /\ nCalls' = nCalls + 1
    /\ call' = [call EXCEPT ![1] = [tool |-> tool, input |-> input], ![2] = call[1]]
    /\ fs' = ToolExecute(tool, fs, input).fs
    /\ res' = [res EXCEPT ![1] = ToolExecute(tool, fs, input).res, ![2] = res[1]]
    /\ UNCHANGED <<auditVars, saved, busySessions, sessions, pc, sess, steps,
                   evDone, evError, resp, nDirect, rt, app, wire, loop, conn, audit>>

ToolNext == \E tool \in AllTools : \E input \in ToolInputs(tool) : ToolRun(tool, input)

ToolSpec == ToolInit /\ [][ToolNext]_vars

\* a relative path with a ".." segment that resolves outside the workspace
Escapes(rel) ==
    /\ rel # Undef
    /\ \E k \in 1..Len(rel) : rel[k] = DOTDOT
    /\ ~InsideWorkspace(Resolve(Workspace, rel))

CallEscapes(c) ==
    \/ Escapes(c.input.path)
    \/ (c.tool = "file_rename" /\ Escapes(c.input.newPath))

\* C6: every tool answers a path that escapes the workspace with a
\* path-escape error, reads no file outside the workspace and changes nothing.
C6_EscapeRejected ==
    [][(nCalls' = nCalls + 1 /\ CallEscapes(call'[1])) =>
          /\ res'[1].error = "PathEscape"
          /\ fs' = fs
          /\ \A f \in ToolReads(call'[1].tool, fs, call'[1].input) : InsideWorkspace(f)]_vars

\* the file a path resolves to has a protected name
HitsProtectedFile(rel) ==
    /\ rel # Undef
    /\ Resolve(Workspace, rel) # <<>>
    /\ MatchesProtectedPattern(Basename(Resolve(Workspace, rel)))

\* C32: file_write refuses every write whose target file has a protected
\* name, however the path to it is spelled: the result is an error and the
\* filesystem is unchanged.
C32_ProtectedWriteRefused ==
    [][(/\ nCalls' = nCalls + 1
        /\ call'[1].tool = "file_write"
        /\ HitsProtectedFile(call'[1].input.path)) =>
          /\ ~res'[1].success
          /\ fs' = fs]_vars

\* C38: file_rename enforces the protected-name policy of file_write and
\* file_delete: no call of it creates, overwrites, moves away or deletes a
\* file with a protected name.
C38_RenameSparesProtected ==
    [][(nCalls' = nCalls + 1 /\ call'[1].tool = "file_rename") =>
          \A f \in (DOMAIN fs) \cup (DOMAIN fs') :
              MatchesProtectedPattern(Basename(f)) =>
                  /\ f \in DOMAIN fs /\ f \in DOMAIN fs'
                  /\ fs'[f] = fs[f]]_vars

SamePath(c, d) == Resolve(Workspace, c.input.path) = Resolve(Workspace, d.input.path)

\* C11: a successful file_write of a text, the empty text included, to a
\* path followed at once by file_read of that path returns exactly that text.
C11_WriteThenRead ==
    (/\ nCalls >= 2
     /\ call[2].tool = "file_write" /\ res[2].success
     /\ WellFormed(call[2].input.content)
     /\ call[1].tool = "file_read" /\ SamePath(call[1], call[2]))
        => (res[1].success /\ res[1].content = call[2].input.content)

\* the empty text was written and then read
C11_Witness ==
    /\ nCalls = 2
    /\ call[2].tool = "file_write" /\ res[2].success
    /\ call[2].input.content = TextEmpty
    /\ call[1].tool = "file_read" /\ SamePath(call[1], call[2])
    /\ res[1].success

ReadOf(fsys, p) == ToolExecute("file_read", fsys, ToolInput(p, Undef, NoText)).res

\* C12: after a successful file_rename(a, b), file_read(b) returns what
\* file_read(a) returned before, file_read(a) reports that the file is not
\* found, and no other file is created, removed or changed.
C12_RenameMovesContent ==
    [][(nCalls' = nCalls + 1 /\ call'[1].tool = "file_rename" /\ res'[1].success) =>
          LET a == call'[1].input.path
              b == call'[1].input.newPath
              ab == {Resolve(Workspace, a), Resolve(Workspace, b)}
          IN  /\ ReadOf(fs, a).success
              /\ ReadOf(fs', b).success
              /\ ReadOf(fs', b).content = ReadOf(fs, a).content
              /\ ReadOf(fs', a).error = "NotFound"
              /\ (DOMAIN fs') \ ab = (DOMAIN fs) \ ab
              /\ \A f \in (DOMAIN fs) \ ab : fs'[f] = fs[f]]_vars

\* a was renamed to b
C12_Witness ==
    /\ call[1].tool = "file_rename" /\ res[1].success
    /\ call[1].input.path = PathA /\ call[1].input.newPath = PathB
    /\ Resolve(Workspace, PathB) \in DOMAIN fs
    /\ Resolve(Workspace, PathA) \notin DOMAIN fs

(***************************************************************************)
(* computeDiff: the positional, line by line comparison of file_diff       *)
(***************************************************************************)
NoDiff == [added |-> 0, removed |-> 0, unchanged |-> 0, patches |-> <<>>]

\* both lines present and different, counted as an added line only
ModifiedLine_AddedOnly(acc, oldIdx, oldLine, newLine) ==
    [acc EXCEPT !.patches = @ \o << <<"@@", oldIdx + 1>>, <<"-", oldLine>>, <<"+", newLine>> >>,
                !.added = @ + 1]

\* both lines present and different
ModifiedLine(acc, oldIdx, oldLine, newLine) ==
    [acc EXCEPT !.patches = @ \o << <<"@@", oldIdx + 1>>, <<"-", oldLine>>, <<"+", newLine>> >>,
                !.removed = @ + 1,
                !.added = @ + 1]

RECURSIVE DiffLoop(_, _, _, _, _)
\* the while loop; oldIdx and newIdx count from 0, an index past the end
\* reads undefined
DiffLoop(oldLines, newLines, oldIdx, newIdx, acc) ==
    IF ~(oldIdx < Len(oldLines) \/ newIdx < Len(newLines)) THEN acc
    ELSE LET hasOld == oldIdx < Len(oldLines)
             hasNew == newIdx < Len(newLines)
             oldLine == IF hasOld THEN oldLines[oldIdx + 1] ELSE "undefined"
             newLine == IF hasNew THEN newLines[newIdx + 1] ELSE "undefined"
         IN  IF hasOld = hasNew /\ oldLine = newLine
             THEN DiffLoop(oldLines, newLines, oldIdx + 1, newIdx + 1,
                           [acc EXCEPT !.unchanged = @ + 1])
             ELSE IF hasOld /\ hasNew
             THEN DiffLoop(oldLines, newLines, oldIdx + 1, newIdx + 1,
                           ModifiedLine(acc, oldIdx, oldLine, newLine))
             ELSE IF hasNew
             THEN DiffLoop(oldLines, newLines, oldIdx, newIdx + 1,
                           [acc EXCEPT !.patches = Append(@, <<"+", newLine>>),
                                       !.added = @ + 1])
             ELSE DiffLoop(oldLines, newLines, oldIdx + 1, newIdx,
                           [acc EXCEPT !.patches = Append(@, <<"-", oldLine>>),
                                       !.removed = @ + 1])

computeDiff(oldLines, newLines) == DiffLoop(oldLines, newLines, 0, 0, NoDiff)

Lines == {"", "x", "y"}

\* content.split("\n") yields at least one line; a new file has no old line
LineSeqs(min) == UNION {[1..n -> Lines] : n \in min..MaxLines}

DiffInit ==
    /\ fs = InitialFs
    /\ store = EmptyStore
    /\ changeLog = <<>>
    /\ busySessions = {}
    /\ sessions = <<>>
    /\ pc = [i \in Invocations |-> "idle"]
    /\ sess = [i \in Invocations |-> "main"]
    /\ call = [i \in Invocations |-> NoCall]
    /\ res = [i \in Invocations |-> NoResult]
    /\ steps = [i \in Invocations |-> <<>>]
    /\ evDone = [i \in Invocations |-> 0]
    /\ evError = [i \in Invocations |-> 0]
    /\ resp = [i \in Invocations |-> "none"]
    /\ nCalls = 0
    /\ nDirect = 0
    /\ rt = NoScript
    /\ app = [NoApp EXCEPT !.op = "ready"]
    /\ wire = NoWire
    /\ loop = NoLoop
    /\ conn = NoConn
    /\ saved = <<>>
    /\ audit = NoAudit

\* const diff = computeDiff(oldLines, newLines)
DiffRun(oldLines, newLines) ==
    /\ app.op = "ready"
    /\ app' = [op |-> "computeDiff", old |-> oldLines, new |-> newLines,
               out |-> computeDiff(oldLines, newLines)]
    /\ UNCHANGED <<fs, store, res, rt, changeLog, saved, busySessions, sessions, pc, sess,
                   call, steps, evDone, evError, resp, nCalls, nDirect, wire, loop, conn, audit>>

DiffNext == \E oldLines \in LineSeqs(0), newLines \in LineSeqs(1) : DiffRun(oldLines, newLines)

DiffSpec == DiffInit /\ [][DiffNext]_vars

\* C13: unchanged + removed is the number of old lines and unchanged + added
\* the number of new lines; on identical old and new lines nothing is added
\* or removed, every line is unchanged and the patch is empty.
C13_DiffCounts ==
    app.op = "computeDiff" =>
        /\ app.out.unchanged + app.out.removed = Len(app.old)
        /\ app.out.unchanged + app.out.added = Len(app.new)
        /\ app.old = app.new =>
              /\ app.out.added = 0 /\ app.out.removed = 0
              /\ app.out.unchanged = Len(app.old)
              /\ app.out.patches = <<>>

\* a line was modified and a line was appended
C13_Witness ==
    /\ app.op = "computeDiff"
    /\ Len(app.new) > Len(app.old)
    /\ app.out.removed > 0
    /\ app.out.unchanged > 0

(***************************************************************************)
(* The snapshot round trip: file_write(p, X), save, file_write(p, Y) or    *)
(* file_delete(p), rollback, file_read(p), on a store that may already     *)
(* hold snapshots                                                          *)
(***************************************************************************)
RoundTripInit ==
    /\ fs = InitialFs
    /\ store = EmptyStore
    /\ changeLog = <<>>
    /\ busySessions = {}
    /\ sessions = <<>>
    /\ pc = [i \in Invocations |-> "idle"]
    /\ sess = [i \in Invocations |-> "main"]
    /\ call = [i \in Invocations |-> NoCall]
    /\ res = [i \in Invocations |-> NoResult]
    /\ steps = [i \in Invocations |-> <<>>]
    /\ evDone = [i \in Invocations |-> 0]
    /\ evError = [i \in Invocations |-> 0]
    /\ resp = [i \in Invocations |-> "none"]
    /\ nCalls = 0
    /\ nDirect = 0
    /\ rt = [NoScript EXCEPT !.stage = "start"]
    /\ app = NoApp
    /\ wire = NoWire
    /\ loop = NoLoop
    /\ conn = NoConn
    /\ saved = <<>>
    /\ audit = NoAudit

rtRest == <<changeLog, saved, busySessions, sessions, pc, sess, call, steps,
            evDone, evError, resp, nCalls, nDirect, app, wire, loop, conn, audit>>

\* an earlier SnapshotStore.save, of file q for session s
RT_PriorSave(s, q, id) ==
    /\ rt.stage = "start"
    /\ Len(store.entries) < MaxPrior
    /\ IdAllowed(store, id)
    /\ store' = SnapshotSave(store, fs, s, Resolve(Workspace, q), "before_write", id)
    /\ UNCHANGED <<fs, res, rt, rtRest>>

\* file_write(p, X), successful
RT_Write(p, x) ==
    /\ rt.stage = "start"
    /\ ToolExecute("file_write", fs, ToolInput(p, Undef, x)).res.success
    /\ fs' = ToolExecute("file_write", fs, ToolInput(p, Undef, x)).fs
    /\ rt' = [rt EXCEPT !.stage = "written", !.p = p, !.x = x]
    /\ UNCHANGED <<store, res, rtRest>>

\* SnapshotStore.save for p, returning the entry with this id
RT_Save(s, id) ==
    /\ rt.stage = "written"
    /\ IdAllowed(store, id)
    /\ store' = SnapshotSave(store, fs, s, Resolve(Workspace, rt.p), "before_write", id)
    /\ rt' = [rt EXCEPT !.stage = "saved", !.id = id]
    /\ UNCHANGED <<fs, res, rtRest>>

\* file_write(p, Y)
RT_Overwrite(y) ==
    /\ rt.stage = "saved"
    /\ fs' = ToolExecute("file_write", fs, ToolInput(rt.p, Undef, y)).fs
    /\ rt' = [rt EXCEPT !.stage = "changed"]
    /\ UNCHANGED <<store, res, rtRest>>

\* file_delete(p)
RT_Delete ==
    /\ rt.stage = "saved"
    /\ fs' = ToolExecute("file_delete", fs, ToolInput(rt.p, Undef, NoText)).fs
    /\ rt' = [rt EXCEPT !.stage = "changed"]
    /\ UNCHANGED <<store, res, rtRest>>

\* rollback(id of that snapshot)
RT_Rollback ==
    /\ rt.stage = "changed"
    /\ fs' = Rollback(store, fs, rt.id).fs
    /\ rt' = [rt EXCEPT !.stage = "rolled"]
    /\ UNCHANGED <<store, res, rtRest>>

\* file_read(p)
RT_Read ==
    /\ rt.stage = "rolled"
    /\ res' = [res EXCEPT ![1] = ToolExecute("file_read", fs, ToolInput(rt.p, Undef, NoText)).res]
    /\ rt' = [rt EXCEPT !.stage = "read"]
    /\ UNCHANGED <<fs, store, rtRest>>

RoundTripNext ==
    \/ \E s \in SessionIds, q \in {PathA, PathEnv}, id \in SnapshotIds : RT_PriorSave(s, q, id)
    \/ \E p \in {PathA, PathB}, x \in {TextEmpty, TextX, TextY} : RT_Write(p, x)
    \/ \E s \in SessionIds, id \in SnapshotIds : RT_Save(s, id)
    \/ \E y \in {TextEmpty, TextX, TextY} : RT_Overwrite(y)
    \/ RT_Delete
    \/ RT_Rollback
    \/ RT_Read

RoundTripSpec == RoundTripInit /\ [][RoundTripNext]_vars

\* C10: after file_write(p, X), save, file_write(p, Y) or file_delete(p) and
\* rollback of that snapshot, file_read(p) returns exactly X.
C10_RoundTrip ==
    rt.stage = "read" => (res[1].success /\ res[1].content = rt.x)

\* the same, for a snapshot whose id no other entry of the store carries
RoundTripWithUniqueId ==
    (rt.stage = "read" /\ Cardinality({k \in 1..Len(store.entries) : store.entries[k].id = rt.id}) = 1)
        => (res[1].success /\ res[1].content = rt.x)

\* C27: after any sequence of saves no two entries of the snapshot store
\* carry the same id.
C27_SnapshotIdsUnique ==
    \A j, k \in 1..Len(store.entries) :
        j # k => store.entries[j].id # store.entries[k].id

(***************************************************************************)
(* Properties of the chat turn                                             *)
(***************************************************************************)
Holders(s) == {i \in Invocations : InFlight(i) /\ sess[i] = s}

\* C1: single-flight.  In every reachable state at most one handleChatSend
\* invocation per session id is between busySessions.add and
\* busySessions.delete, and busySessions holds exactly the ids that have one.
C1_SingleFlight ==
    /\ \A s \in SessionIds : Cardinality(Holders(s)) <= 1
    /\ busySessions = {s \in SessionIds : Holders(s) # {}}

\* a second request for a session arrived while its turn was in flight
C1_Witness ==
    \E i, j \in Invocations :
        /\ i # j /\ InFlight(i) /\ pc[i] = "io"
        /\ pc[j] = "rejected" /\ sess[j] = sess[i]

\* C2: a chat.send for a session that is busy is answered with an error
\* response and changes nothing: no message is appended, busySessions is
\* unchanged, no loop is started and the turn in flight goes on untouched; a
\* chat.send for a session that is not busy is accepted.
C2_BusyRejection ==
    [][\A i \in Invocations :
          (pc[i] = "idle" /\ pc'[i] # "idle") =>
             IF sess'[i] \in busySessions
             THEN /\ pc'[i] = "rejected" /\ resp'[i] = "error"
                  /\ sessions' = sessions /\ busySessions' = busySessions
                  /\ fs' = fs /\ store' = store /\ changeLog' = changeLog
                  /\ \A j \in Invocations \ {i} : pc'[j] = pc[j]
                  /\ \E j \in Invocations \ {i} : InFlight(j) /\ sess[j] = sess'[i]
             ELSE /\ pc'[i] = "stream" /\ resp'[i] = "none"
                  /\ sess'[i] \in busySessions']_vars

\* of two requests for one session the first ran to completion, the second was rejected
C2_Witness ==
    \E i, j \in Invocations :
        /\ i # j /\ sess[j] = sess[i]
        /\ pc[i] = "finished" /\ evDone[i] = 1 /\ resp[i] = "result"
        /\ pc[j] = "rejected" /\ resp[j] = "error"

\* C3: every accepted chat.send sends its connection exactly one terminal
\* chat event, done or error, never both and never neither.
C3_ExactlyOneTerminalEvent ==
    \A i \in Invocations : pc[i] = "finished" => evDone[i] + evError[i] = 1

\* the steps of an accepted turn other than the backend asking for a tool
TurnStep(i) ==
    \/ BackendEnd(i)
    \/ BackendFail(i)
    \/ ToolExecBegin(i)
    \/ ToolExecIO(i)
    \/ ToolResultEvent(i)

\* the event loop resumes every turn whose awaited step has completed, and
\* the backend stream of every turn ends
LiveSpec == Spec /\ \A i \in Invocations : WF_vars(TurnStep(i))

BusyReleased ==
    /\ \A i \in Invocations : InFlight(i) => ENABLED TurnStep(i)
    /\ \A i \in Invocations :
          pc[i] = "finished" /\ Holders(sess[i]) = {} =>
             /\ sess[i] \notin busySessions
             /\ ~IsBusy(busySessions, sess[i])

\* C4: no session stays busy.  Every chat.send that added its session id to
\* busySessions eventually returns, on whatever path, with the id removed, so
\* that a new chat.send for that id is accepted; and the id is in the set
\* afterwards only while a later turn holds it.
C4_BusyReleased ==
    /\ []BusyReleased
    /\ \A i \in Invocations :
          InFlight(i) ~> (pc[i] = "finished" /\ ~IsBusy(busySessions, sess[i]))

\* a turn ended in an exception and a later turn of the same session is running
C4_Witness ==
    \E i, j \in Invocations :
        /\ pc[i] = "finished" /\ evDone[i] = 0 /\ evError[i] = 1
        /\ InFlight(j) /\ sess[j] = sess[i]

Position(st, x) == IF \E k \in 1..Len(st) : st[k] = x
                   THEN CHOOSE k \in 1..Len(st) : st[k] = x
                   ELSE 0

C7_SnapshotsInsideWorkspace ==
    \A k \in 1..Len(store.entries) : InsideWorkspace(store.entries[k].absolutePath)

\* C8: a file_delete of a protected file in a chat turn yields a protection
\* error, leaves the file alone, and creates neither a snapshot entry nor a
\* change-log entry.
C8_ProtectedDeleteLeavesNoTrace ==
    \A i \in Invocations :
        (pc[i] = "result" /\ call[i].tool = "file_delete"
            /\ IsProtectedFile(call[i].input.path)) =>
           /\ res[i].error = "Protected"
           /\ Exists(fs, Resolve(Workspace, call[i].input.path))
           /\ ~\E k \in 1..Len(store.entries) :
                 /\ store.entries[k].action = "before_delete"
                 /\ store.entries[k].absolutePath = Resolve(Workspace, call[i].input.path)
           /\ ~\E k \in 1..Len(changeLog) : changeLog[k].action = "delete"

\* the blob saved for a snapshot entry
EntryBlob(st, e) == st.blobs[BlobKey(e.sessionId, e.id, e.filePath)]

\* C9: whenever the content of an existing file is overwritten or removed, a
\* snapshot entry holding that content had been saved before.
C9_DestructionIsSnapshotted ==
    [][\A p \in DOMAIN fs :
          (p \notin DOMAIN fs' \/ fs'[p] # fs[p]) =>
             \E k \in 1..Len(store.entries) :
                /\ store.entries[k].absolutePath = p
                /\ EntryBlob(store, store.entries[k]) = fs[p]]_vars

\* the entries saved for a session and a file, by their place in the index
EntriesFor(st, sessionId, abs) ==
    {k \in 1..Len(st.entries) :
        st.entries[k].sessionId = sessionId /\ st.entries[k].absolutePath = abs}

\* C35: when a file_write, file_delete or file_rename of a chat turn changes
\* an existing file, the snapshot saved for that call (the turn's latest
\* entry for the file) holds the content the file had just before the change.
C35_SnapshotIsPreMutationContent ==
    [][\A i \in Invocations :
          LET abs == Resolve(Workspace, call[i].input.path) IN
          (/\ pc[i] = "io" /\ pc'[i] = "result"
           /\ call[i].tool \in DestructiveTools
           /\ res'[i].success
           /\ Exists(fs, abs)) =>
             LET ks == EntriesFor(store, sess[i], abs) IN
             /\ ks # {}
             /\ EntryBlob(store, store.entries[CHOOSE k \in ks : \A j \in ks : j <= k]) = fs[abs]]_vars

Sent(st, x) == \E k \in 1..Len(st) : st[k] = x

\* C14: in a chat turn a tool result adds a change-log entry and sends a
\* preview.reload event exactly when the tool is file_write, file_delete or
\* file_rename and the result reports success: then one entry, with the
\* turn's session id and the call's path; otherwise neither, and no other
\* step of a turn adds an entry.
C14_ChangeLogIffSuccess ==
    [][\A i \in Invocations :
        /\ (pc[i] = "result" /\ pc'[i] # "result") =>
              IF call[i].tool \in {"file_write", "file_delete", "file_rename"} /\ res[i].success
              THEN /\ Len(changeLog') = Len(changeLog) + 1
                   /\ SubSeq(changeLog', 1, Len(changeLog)) = changeLog
                   /\ changeLog'[Len(changeLog')].sessionId = sess[i]
                   /\ changeLog'[Len(changeLog')].filePath = call[i].input.path
                   /\ Sent(steps'[i], "reload")
              ELSE /\ changeLog' = changeLog
                   /\ ~Sent(steps'[i], "reload")
        /\ (pc[i] # "result" /\ pc'[i] # pc[i]) =>
              (changeLog' = changeLog /\ ~Sent(steps'[i], "reload"))]_vars

\* a successful file_write of session s2 was logged and the preview told to reload
C14_Witness ==
    \E i \in Invocations :
        /\ pc[i] = "stream" /\ sess[i] = "s2"
        /\ call[i].tool = "file_write" /\ res[i].success
        /\ Sent(steps[i], "reload")
        /\ Len(changeLog) = 1
        /\ changeLog[1].sessionId = "s2"

MessagesOf(sm, s) == IF s \in DOMAIN sm THEN sm[s] ELSE <<>>

\* C15: a step of a chat.send that leaves its agent loop still to run or
\* running does not change the session: the messages are appended only
\* after the loop has ended.
C15_SessionUntouchedUntilLoopEnds ==
    [][\A i \in Invocations :
          (pc'[i] # pc[i] /\ pc'[i] \in {"stream", "called", "io", "result"}) =>
              sessions' = sessions]_vars

\* C16: while a turn is in flight for a session, the session's messages are
\* changed only by a step of the chat.send that holds its busy flag; in
\* particular not by session.clear.
C16_OnlyTheHolderMutates ==
    [][\A s \in SessionIds :
          (Holders(s) # {} /\ MessagesOf(sessions', s) # MessagesOf(sessions, s)) =>
              \E i \in Holders(s) : pc'[i] # pc[i]]_vars

\* C17: a tool call naming any tool of the tool set is dispatched to its
\* implementation: its result is never the 'Unknown tool' error.
C17_EveryToolRegistered ==
    \A i \in Invocations :
        call[i].tool \in {"file_read", "file_write", "file_delete", "file_rename",
                          "file_list", "file_search", "file_diff"}
            => res[i].error # "UnknownTool"

\* C18: a tool call that the loop dispatches, whatever is wrong with it, gets
\* its tool.result; dispatching it never sends an error event and never ends
\* the turn.
C18_ToolFailureIsAResult ==
    [][\A i \in Invocations :
          (pc[i] = "stream" /\ nCalls' = nCalls + 1 /\ pc'[i] # pc[i]) =>
              (pc'[i] = "called" /\ evError'[i] = evError[i])]_vars

C20_BackendFailureEndsLoop ==
    /\ [][\A i \in Invocations :
            (pc[i] = "stream" /\ evError'[i] # evError[i]) =>
                /\ evError'[i] = evError[i] + 1
                /\ pc'[i] = "finished"
                /\ fs' = fs /\ store' = store /\ changeLog' = changeLog]_vars
    /\ [](\A i \in Invocations :
            pc[i] = "finished" =>
                /\ ~ENABLED TurnStep(i)
                /\ ~ENABLED (\E c \in ChatCalls, id \in SnapshotIds : ToolCallEvent(i, c, id)))

\* the backend failed after a file_write of the turn had succeeded
C20_Witness ==
    \E i \in Invocations :
        /\ pc[i] = "finished" /\ evError[i] = 1 /\ evDone[i] = 1
        /\ Len(changeLog) = 1 /\ changeLog[1].sessionId = sess[i]
        /\ fs[Resolve(Workspace, PathA)] = TextY

\* C26: a turn whose client has closed its socket is not cancelled.  When a
\* chat.send whose socket is closed leaves its loop, the assistant message
\* has been appended to its session, the session has been saved as it then
\* is, and the session's busy flag is released.
C26_CloseDoesNotCancel ==
    [][\A i \in Invocations :
          (InFlight(i) /\ ~wire[i].open /\ pc'[i] = "finished") =>
              /\ sess[i] \in DOMAIN sessions'
              /\ sessions'[sess[i]] = Append(MessagesOf(sessions, sess[i]), "assistant")
              /\ sess[i] \in DOMAIN saved'
              /\ saved'[sess[i]] = sessions'[sess[i]]
              /\ ~IsBusy(busySessions', sess[i])]_vars

\* C36: whenever no chat.send is in flight for a session, the session's
\* file holds the message sequence the session has in memory.
C36_DurableEqualsInMemory ==
    \A s \in SessionIds :
        Holders(s) = {} => MessagesOf(saved, s) = MessagesOf(sessions, s)

\* C40: whenever no turn is in flight for a session, its messages alternate
\* user, assistant, user, assistant, starting with a user message.
C40_MessagesAlternate ==
    \A s \in SessionIds :
        Holders(s) = {} =>
            LET msgs == MessagesOf(sessions, s) IN
            /\ Len(msgs) % 2 = 0
            /\ \A k \in 1..Len(msgs) :
                  msgs[k] = IF k % 2 = 1 THEN "user" ELSE "assistant"

\* C29: sessions are independent.  A chat.send is rejected as busy only
\* when a turn for its own session id is in flight, and the step that ends a
\* turn (normally or with an exception) changes neither the busy flag nor
\* the messages of any other session.
C29_SessionsIndependent ==
    [][\A i \in Invocations :
          /\ (pc[i] = "idle" /\ pc'[i] = "rejected") => Holders(sess'[i]) # {}
          /\ (InFlight(i) /\ pc'[i] = "finished") =>
                \A s \in SessionIds \ {sess[i]} :
                    /\ IsBusy(busySessions', s) = IsBusy(busySessions, s)
                    /\ MessagesOf(sessions', s) = MessagesOf(sessions, s)]_vars

\* the turns of two sessions were in flight together, then one of them ended
\* while the other went on holding its busy flag
C29_Witness ==
    \E i, j \in Invocations :
        /\ pc[i] = "finished"
        /\ InFlight(j)
        /\ sess[i] # sess[j]
        /\ sess[i] \notin busySessions
        /\ IsBusy(busySessions, sess[j])

\* C30: no tool result is lost.  Between two chunks of the backend stream
\* and after the turn, the gateway has sent as many tool.result events as
\* tool.call events for the turn.
C30_EveryCallHasItsResult ==
    \A i \in Invocations :
        pc[i] \in {"stream", "finished"} => wire[i].results = wire[i].calls

(***************************************************************************)
(* AgentRunner.run: the while loop over backend responses and the chunk    *)
(* loop over one streamed response.  A response carries text, tool-call    *)
(* fragments (a fragment with a name starts a call, the others extend its  *)
(* arguments), at most one finish_reason, and usage.                       *)
(***************************************************************************)
ToolNames == {"file_read", "file_write"}
FinishReasons == {"tool_calls", "stop", "length"}

StartLoop == [state |-> "request", currentToolCall |-> "null", continueLoop |-> TRUE,
              finish |-> "none", pendingAtFinish |-> FALSE, delivered |-> 0,
              dispatched |-> 0, rounds |-> 0, chunks |-> 0, errors |-> 0]

StreamInit ==
    /\ fs = InitialFs
    /\ store = EmptyStore
    /\ changeLog = <<>>
    /\ busySessions = {}
    /\ sessions = <<>>
    /\ pc = [i \in Invocations |-> "idle"]
    /\ sess = [i \in Invocations |-> "main"]
    /\ call = [i \in Invocations |-> NoCall]
    /\ res = [i \in Invocations |-> NoResult]
    /\ steps = [i \in Invocations |-> <<>>]
    /\ evDone = [i \in Invocations |-> 0]
    /\ evError = [i \in Invocations |-> 0]
    /\ resp = [i \in Invocations |-> "none"]
    /\ nCalls = 0
    /\ nDirect = 0
    /\ rt = NoScript
    /\ app = NoApp
    /\ wire = NoWire
    /\ loop = StartLoop
    /\ conn = NoConn
    /\ saved = <<>>
    /\ audit = NoAudit

\* the loop goes on after every response, whatever its finish_reason
ContinuesAfter_Always(finishReason, currentToolCall) == TRUE

\* chunk.choices[0]?.finish_reason === "tool_calls" && currentToolCall
ContinuesAfter(finishReason, currentToolCall) ==
    finishReason = "tool_calls" /\ currentToolCall # "null"

\* while (continueLoop): continueLoop = false, then the request is awaited
LoopRequest ==
    /\ loop.state = "request"
    /\ loop' = [loop EXCEPT !.state = "chunks", !.continueLoop = FALSE,
                            !.currentToolCall = "null", !.finish = "none",
                            !.pendingAtFinish = FALSE, !.chunks = 0, !.rounds = @ + 1]
    /\ UNCHANGED <<fs, store, changeLog, saved, busySessions, sessions, pc, sess, call, res, steps, evDone, evError, resp, nCalls, nDirect, rt, app, wire, conn, audit>>

\* a chunk whose delta starts a tool call: the call accumulated so far, if
\* any, is executed first
ChunkToolName(name) ==
    /\ loop.state = "chunks" /\ loop.chunks < MaxChunks
    /\ loop.finish = "none" /\ loop.rounds < MaxRounds
    /\ loop' = [loop EXCEPT !.chunks = @ + 1,
                            !.dispatched = IF loop.currentToolCall # "null" THEN @ + 1 ELSE @,
                            !.currentToolCall = name,
                            !.delivered = @ + 1]
    /\ UNCHANGED <<fs, store, changeLog, saved, busySessions, sessions, pc, sess, call, res, steps, evDone, evError, resp, nCalls, nDirect, rt, app, wire, conn, audit>>

\* a chunk with text, with a further piece of the arguments, or with usage
ChunkOther ==
    /\ loop.state = "chunks" /\ loop.chunks < MaxChunks
    /\ loop' = [loop EXCEPT !.chunks = @ + 1]
    /\ UNCHANGED <<fs, store, changeLog, saved, busySessions, sessions, pc, sess, call, res, steps, evDone, evError, resp, nCalls, nDirect, rt, app, wire, conn, audit>>

\* the chunk that carries the finish_reason
ChunkFinish(finishReason) ==
    /\ loop.state = "chunks" /\ loop.chunks < MaxChunks
    /\ loop.finish = "none"
    /\ loop' = [loop EXCEPT
                  !.chunks = @ + 1,
                  !.finish = finishReason,
                  !.pendingAtFinish = loop.currentToolCall # "null",
                  !.dispatched = IF ContinuesAfter(finishReason, loop.currentToolCall)
                                 THEN @ + 1 ELSE @,
                  !.continueLoop = IF ContinuesAfter(finishReason, loop.currentToolCall)
                                   THEN TRUE ELSE @,
                  !.currentToolCall = IF ContinuesAfter(finishReason, loop.currentToolCall)
                                      THEN "null" ELSE @]
    /\ UNCHANGED <<fs, store, changeLog, saved, busySessions, sessions, pc, sess, call, res, steps, evDone, evError, resp, nCalls, nDirect, rt, app, wire, conn, audit>>

\* the stream is exhausted: the while condition is tested again
StreamEnd ==
    /\ loop.state = "chunks"
    /\ loop' = [loop EXCEPT !.state = IF loop.continueLoop THEN "request" ELSE "ended"]
    /\ UNCHANGED <<fs, store, changeLog, saved, busySessions, sessions, pc, sess, call, res, steps, evDone, evError, resp, nCalls, nDirect, rt, app, wire, conn, audit>>

\* the request or the stream throws: the catch yields the error event and returns
StreamFail ==
    /\ loop.state = "chunks"
    /\ loop' = [loop EXCEPT !.state = "ended", !.errors = @ + 1]
    /\ UNCHANGED <<fs, store, changeLog, saved, busySessions, sessions, pc, sess, call, res, steps, evDone, evError, resp, nCalls, nDirect, rt, app, wire, conn, audit>>

StreamNext ==
    \/ LoopRequest
    \/ \E name \in ToolNames : ChunkToolName(name)
    \/ ChunkOther
    \/ \E finishReason \in FinishReasons : ChunkFinish(finishReason)
    \/ StreamEnd
    \/ StreamFail

StreamSpec == StreamInit /\ [][StreamNext]_vars

\* every chunk the backend sent is consumed, and the backend's streams end
StreamLiveSpec == StreamSpec /\ WF_vars(LoopRequest) /\ WF_vars(StreamEnd)

\* C21: a further backend request is issued exactly when the response before
\* ended with finish_reason tool_calls and a pending tool call, which was
\* executed; otherwise the run ends after that response; and every run ends.
C21_RoundTripIffToolUse ==
    /\ [][(loop.state = "chunks" /\ loop'.state = "request") =>
             (loop.finish = "tool_calls" /\ loop.pendingAtFinish
                /\ loop.currentToolCall = "null" /\ loop.dispatched > 0)]_vars
    /\ [][(loop.state = "chunks" /\ loop'.state = "ended" /\ loop'.errors = loop.errors) =>
             ~(loop.finish = "tool_calls" /\ loop.pendingAtFinish)]_vars
    /\ <>(loop.state = "ended")

\* a run ended after a second response, which used no tool
C21_Witness ==
    /\ loop.state = "ended" /\ loop.errors = 0
    /\ loop.rounds = 2 /\ loop.dispatched = 1 /\ loop.finish = "stop"

\* C22: when a run has ended without an error, every tool call whose name
\* the stream delivered has been dispatched.
C22_NoToolCallDiscarded ==
    (loop.state = "ended" /\ loop.errors = 0) => loop.dispatched = loop.delivered

(***************************************************************************)
(* The gateway's sockets: authentication at connection time, the           *)
(* heartbeat, and handleMessage with the frames it sends back.  out is     *)
(* what a socket has delivered to its client, in order; ticksSeen and      *)
(* pongSince record what the heartbeat claim speaks about.                 *)
(***************************************************************************)
ConnIds == 1..MaxConns
Tokens == {"absent", "secret", "wrong"}
Methods == {"ping", "nope", "chat.send", "missing"}

NoSock == [state |-> "none", token |-> "absent", registered |-> FALSE, isAlive |-> FALSE,
           pingOpen |-> FALSE, ticksSeen |-> 0, pongSince |-> FALSE, out |-> <<>>]

StartConn(authToken) ==
    [authToken |-> authToken, socks |-> [c \in ConnIds |-> NoSock], reqs |-> <<>>,
     busy |-> FALSE, ticks |-> 0]

ConnInitWith(authToken) ==
    /\ fs = InitialFs
    /\ store = EmptyStore
    /\ changeLog = <<>>
    /\ busySessions = {}
    /\ sessions = <<>>
    /\ pc = [i \in Invocations |-> "idle"]
    /\ sess = [i \in Invocations |-> "main"]
    /\ call = [i \in Invocations |-> NoCall]
    /\ res = [i \in Invocations |-> NoResult]
    /\ steps = [i \in Invocations |-> <<>>]
    /\ evDone = [i \in Invocations |-> 0]
    /\ evError = [i \in Invocations |-> 0]
    /\ resp = [i \in Invocations |-> "none"]
    /\ nCalls = 0
    /\ nDirect = 0
    /\ rt = NoScript
    /\ app = NoApp
    /\ wire = NoWire
    /\ loop = NoLoop
    /\ conn = StartConn(authToken)
    /\ saved = <<>>
    /\ audit = NoAudit

\* the gateway runs with or without config.authToken
ConnInit == ConnInitWith("secret") \/ ConnInitWith("unset")

\* every connection is let in
Authorized_Any(authToken, token) == TRUE

\* if (this.config.authToken) { if (token !== this.config.authToken) close }
Authorized(authToken, token) == authToken = "unset" \/ token = authToken

\* the heartbeat never gives up on a socket
Terminates_Never(sock) == FALSE

\* if (ws.isAlive === false) ws.terminate()
Terminates(sock) == sock.isAlive = FALSE

\* handleMessage answers a throwing handler with an error frame and a result frame
FramesFor_Both(k, outcome) ==
    IF outcome = "returns"
    THEN << [kind |-> "result", req |-> k, id |-> k] >>
    ELSE << [kind |-> "error", req |-> k, id |-> 0],
            [kind |-> "result", req |-> k, id |-> k] >>

\* handleMessage: sendResponse(frame.id, result) when dispatch returns,
\* sendError("unknown", message) when it throws; id 0 stands for "unknown"
FramesFor(k, outcome) ==
    IF outcome = "returns"
    THEN << [kind |-> "result", req |-> k, id |-> k] >>
    ELSE << [kind |-> "error", req |-> k, id |-> 0] >>

\* ws.send: delivered while the socket is open, dropped afterwards
Deliver(sock, frames) ==
    IF sock.state = "open" THEN [sock EXCEPT !.out = @ \o frames] ELSE sock

\* wss.on("connection")
Connect(c, token) ==
    /\ conn.socks[c].state = "none"
    /\ conn' = [conn EXCEPT !.socks[c] =
                  IF Authorized(conn.authToken, token)
                  THEN [NoSock EXCEPT !.state = "open", !.token = token, !.registered = TRUE,
                                      !.isAlive = TRUE,
                                      !.out = << [kind |-> "connected", req |-> 0, id |-> 0] >>]
                  ELSE [NoSock EXCEPT !.state = "refused", !.token = token]]
    /\ UNCHANGED <<fs, store, changeLog, saved, busySessions, sessions, pc, sess, call, res, steps, evDone, evError, resp, nCalls, nDirect, rt, app, wire, loop, audit>>

\* ws.on("pong"): the client answers the ping it was sent
ClientPong(c) ==
    /\ conn.socks[c].state = "open" /\ conn.socks[c].pingOpen
    /\ conn' = [conn EXCEPT !.socks[c].isAlive = TRUE, !.socks[c].pingOpen = FALSE,
                            !.socks[c].pongSince = TRUE]
    /\ UNCHANGED <<fs, store, changeLog, saved, busySessions, sessions, pc, sess, call, res, steps, evDone, evError, resp, nCalls, nDirect, rt, app, wire, loop, audit>>

\* one socket in one run of the setInterval callback
TickSock(sock) ==
    IF sock.state # "open" THEN sock
    ELSE IF Terminates(sock)
    THEN [sock EXCEPT !.state = "terminated", !.registered = FALSE, !.pingOpen = FALSE,
                      !.ticksSeen = @ + 1]
    ELSE [sock EXCEPT !.isAlive = FALSE, !.pingOpen = TRUE, !.pongSince = FALSE,
                      !.ticksSeen = @ + 1]

\* setupHeartbeat: the interval fires
HeartbeatTick ==
    /\ conn.ticks < MaxTicks
    /\ \E c \in ConnIds : conn.socks[c].state # "none"
    /\ conn' = [conn EXCEPT !.ticks = @ + 1,
                            !.socks = [c \in ConnIds |-> TickSock(conn.socks[c])]]
    /\ UNCHANGED <<fs, store, changeLog, saved, busySessions, sessions, pc, sess, call, res, steps, evDone, evError, resp, nCalls, nDirect, rt, app, wire, loop, audit>>

\* what dispatch does with a well-formed frame: "running" for a chat.send
\* that was accepted
Dispatch(method, busy) ==
    CASE method = "ping" -> "returns"
      [] method = "chat.send" -> IF busy THEN "throws" ELSE "running"
      [] OTHER -> "throws"

\* a client sends a frame; ws.on("message") is attached to registered sockets only
SendFrame(c, hasId, method) ==
    /\ Len(conn.reqs) < MaxReqs
    /\ conn.socks[c].state \in {"open", "refused"}
    /\ LET k == Len(conn.reqs) + 1
           valid == hasId /\ method # "missing"
           outcome == IF ~valid THEN "throws" ELSE Dispatch(method, conn.busy)
           req == [c |-> c, hasId |-> hasId, method |-> method, events |-> 0,
                   busyAtArrival |-> conn.busy,
                   stage |-> IF ~conn.socks[c].registered THEN "dropped"
                             ELSE IF outcome = "running" THEN "running" ELSE "answered"]
       IN  conn' = [conn EXCEPT
                      !.reqs = Append(@, req),
                      !.busy = IF req.stage = "running" THEN TRUE ELSE @,
                      !.socks[c] = IF req.stage = "answered"
                                   THEN Deliver(@, FramesFor(k, outcome)) ELSE @]
    /\ UNCHANGED <<fs, store, changeLog, saved, busySessions, sessions, pc, sess, call, res, steps, evDone, evError, resp, nCalls, nDirect, rt, app, wire, loop, audit>>

\* handleChatSend forwards an agent event
ChatEvent(k) ==
    /\ k \in 1..Len(conn.reqs)
    /\ conn.reqs[k].stage = "running" /\ conn.reqs[k].events = 0
    /\ conn' = [conn EXCEPT
                  !.reqs[k].events = @ + 1,
                  !.socks[conn.reqs[k].c] =
                      Deliver(@, << [kind |-> "event", req |-> k, id |-> 0] >>)]
    /\ UNCHANGED <<fs, store, changeLog, saved, busySessions, sessions, pc, sess, call, res, steps, evDone, evError, resp, nCalls, nDirect, rt, app, wire, loop, audit>>

\* handleChatSend sends done, releases the busy flag and returns
ChatReturn(k) ==
    /\ k \in 1..Len(conn.reqs)
    /\ conn.reqs[k].stage = "running"
    /\ conn' = [conn EXCEPT
                  !.reqs[k].stage = "returned",
                  !.busy = FALSE,
                  !.socks[conn.reqs[k].c] =
                      Deliver(@, << [kind |-> "event", req |-> k, id |-> 0] >>)]
    /\ UNCHANGED <<fs, store, changeLog, saved, busySessions, sessions, pc, sess, call, res, steps, evDone, evError, resp, nCalls, nDirect, rt, app, wire, loop, audit>>

\* handleMessage resumes after await dispatch and sends the response
ChatRespond(k) ==
    /\ k \in 1..Len(conn.reqs)
    /\ conn.reqs[k].stage = "returned"
    /\ conn' = [conn EXCEPT
                  !.reqs[k].stage = "answered",
                  !.socks[conn.reqs[k].c] = Deliver(@, FramesFor(k, "returns"))]
    /\ UNCHANGED <<fs, store, changeLog, saved, busySessions, sessions, pc, sess, call, res, steps, evDone, evError, resp, nCalls, nDirect, rt, app, wire, loop, audit>>

ConnNext ==
    \/ \E c \in ConnIds, token \in Tokens : Connect(c, token)
    \/ \E c \in ConnIds : ClientPong(c)
    \/ HeartbeatTick
    \/ \E c \in ConnIds, hasId \in BOOLEAN, method \in Methods : SendFrame(c, hasId, method)
    \/ \E k \in 1..MaxReqs : ChatEvent(k)
    \/ \E k \in 1..MaxReqs : ChatReturn(k)
    \/ \E k \in 1..MaxReqs : ChatRespond(k)

ConnSpec == ConnInit /\ [][ConnNext]_vars

FramesOf(k, kinds) ==
    LET out == conn.socks[conn.reqs[k].c].out IN
    {n \in 1..Len(out) : out[n].req = k /\ out[n].kind \in kinds}

\* C23: a request frame with an id and a method, once its handler is done
\* and its socket still open, has got exactly one response frame, a result
\* or an error, never both and never two; an unknown method and a busy
\* session get the error; the response of a chat.send comes after every
\* chat event of its turn.
C23_OneResponsePerRequest ==
    \A k \in 1..Len(conn.reqs) :
        LET req == conn.reqs[k]
            answers == FramesOf(k, {"result", "error"})
        IN  (req.hasId /\ req.method # "missing" /\ conn.socks[req.c].registered) =>
              /\ Cardinality(answers) <= 1
              /\ (req.stage = "answered" /\ conn.socks[req.c].state = "open")
                    => Cardinality(answers) = 1
              /\ req.stage # "answered" => answers = {}
              /\ (req.method = "nope" \/ (req.method = "chat.send" /\ req.busyAtArrival))
                    => (req.stage = "answered" /\ FramesOf(k, {"result"}) = {})
              /\ \A n \in answers : \A e \in FramesOf(k, {"event"}) : e < n

\* a chat.send was refused as busy while the first one, since answered, was running
C23_Witness ==
    /\ Len(conn.reqs) = 2
    /\ conn.reqs[1].method = "chat.send" /\ conn.reqs[1].stage = "answered"
    /\ conn.reqs[1].events = 1
    /\ conn.reqs[2].method = "chat.send" /\ conn.reqs[2].hasId
    /\ FramesOf(2, {"error"}) # {} /\ FramesOf(1, {"result"}) # {}
    /\ \E n \in FramesOf(2, {"error"}) : \A e \in FramesOf(1, {"result"}) : n < e

\* C37: every response frame, result or error, sent for a request frame
\* that has an id carries that id.
C37_ResponseCarriesRequestId ==
    \A c \in ConnIds :
        \A n \in 1..Len(conn.socks[c].out) :
            LET frame == conn.socks[c].out[n] IN
            (frame.kind \in {"result", "error"} /\ conn.reqs[frame.req].hasId) =>
                frame.id = frame.req

\* C24: at a heartbeat tick a socket that was there at the tick before and
\* has sent no pong since is terminated; a socket that has answered the
\* last ping, or was opened after the last tick, stays open.
C24_Heartbeat ==
    [][conn'.ticks = conn.ticks + 1 =>
         \A c \in ConnIds :
            conn.socks[c].state = "open" =>
               IF conn.socks[c].ticksSeen > 0 /\ ~conn.socks[c].pongSince
               THEN conn'.socks[c].state = "terminated" /\ ~conn'.socks[c].registered
               ELSE conn'.socks[c].state = "open"]_vars

\* one socket was terminated at the second tick, another answered and stayed
C24_Witness ==
    /\ conn.ticks = 2
    /\ \E c, d \in ConnIds :
          /\ conn.socks[c].state = "terminated"
          /\ conn.socks[d].state = "open" /\ conn.socks[d].ticksSeen = 2

\* C25: with an auth token configured, a socket whose token is absent or
\* different is never registered, gets no connected event or any other
\* frame, and none of its frames reaches a handler.
C25_UnauthorizedNeverServed ==
    conn.authToken # "unset" =>
        \A c \in ConnIds :
            (conn.socks[c].state # "none" /\ conn.socks[c].token # conn.authToken) =>
                /\ ~conn.socks[c].registered
                /\ conn.socks[c].out = <<>>
                /\ \A k \in 1..Len(conn.reqs) :
                      conn.reqs[k].c = c => conn.reqs[k].stage = "dropped"

\* a refused socket sent a chat.send frame
C25_Witness ==
    /\ conn.authToken = "secret"
    /\ \E k \in 1..Len(conn.reqs) :
          /\ conn.socks[conn.reqs[k].c].token = "wrong"
          /\ conn.reqs[k].method = "chat.send" /\ conn.reqs[k].hasId


(***************************************************************************)
(* ChangeLog and SnapshotStore as lists: append / save push an entry with  *)
(* the time of the call and rewrite the file, list filters, sorts and      *)
(* slices, clear filters and rewrites the file.                            *)
(***************************************************************************)
LogInit ==
    /\ fs = InitialFs
    /\ store = EmptyStore
    /\ changeLog = <<>>
    /\ busySessions = {}
    /\ sessions = <<>>
    /\ pc = [i \in Invocations |-> "idle"]
    /\ sess = [i \in Invocations |-> "main"]
    /\ call = [i \in Invocations |-> NoCall]
    /\ res = [i \in Invocations |-> NoResult]
    /\ steps = [i \in Invocations |-> <<>>]
    /\ evDone = [i \in Invocations |-> 0]
    /\ evError = [i \in Invocations |-> 0]
    /\ resp = [i \in Invocations |-> "none"]
    /\ nCalls = 0
    /\ nDirect = 0
    /\ rt = NoScript
    /\ app = NoApp
    /\ wire = NoWire
    /\ loop = NoLoop
    /\ conn = NoConn
    /\ saved = <<>>
    /\ audit = NoAudit

logRest == <<fs, store, changeLog, busySessions, sessions, pc, sess, call, res,
             steps, evDone, evError, resp, nCalls, nDirect, rt, app, wire, loop,
             conn, saved>>

\* no sessionId in the request (or an empty one): nothing is filtered
NoSessionId == ""

\* Array.prototype.filter: a new array of the elements that pass
RECURSIVE SelectEntries(_, _, _)
SelectEntries(entries, sessionId, keep) ==
    IF entries = <<>> THEN <<>>
    ELSE IF (Head(entries).sessionId = sessionId) = keep
         THEN <<Head(entries)>> \o SelectEntries(Tail(entries), sessionId, keep)
         ELSE SelectEntries(Tail(entries), sessionId, keep)

\* entries.sort((a, b) => b.timestamp - a.timestamp): the array is sorted in
\* place, newest first, entries of the same millisecond keeping their order,
\* and the array itself is the value returned
SortNewestFirst(entries) ==
    LET n == Len(entries)
        rank(k) == Cardinality({j \in 1..n :
                       \/ entries[j].timestamp > entries[k].timestamp
                       \/ entries[j].timestamp = entries[k].timestamp /\ j <= k})
        sorted == [r \in 1..n |-> entries[CHOOSE k \in 1..n : rank(k) = r]]
    IN [array |-> sorted, sorted |-> sorted]

\* slice(offset, offset + limit)
Slice(entries, offset, limit) ==
    SubSeq(entries, offset + 1,
           IF offset + limit < Len(entries) THEN offset + limit ELSE Len(entries))

NewEntry(sessionId, n) == [n |-> n, sessionId |-> sessionId, timestamp |-> audit.clock]

\* a millisecond passes
ClockTick ==
    /\ audit.clock < MaxClock
    /\ audit' = [audit EXCEPT !.clock = @ + 1]
    /\ UNCHANGED logRest

\* ChangeLog.append: push, save
LogAppend(sessionId) ==
    /\ Len(audit.appended) + Len(audit.snapshots) < MaxEntries
    /\ LET e == NewEntry(sessionId, Len(audit.appended) + 1) IN
       audit' = [audit EXCEPT !.log = Append(@, e),
                              !.logFile = Append(audit.log, e),
                              !.appended = Append(@, e)]
    /\ UNCHANGED logRest

\* ChangeLog.list(options): without a session id the array sorted is
\* this.entries itself
LogList(sessionId, limit, offset) ==
    /\ LET filtered == IF sessionId # NoSessionId
                       THEN SelectEntries(audit.log, sessionId, TRUE)
                       ELSE audit.log
           s == SortNewestFirst(filtered)
       IN audit' = [audit EXCEPT
                       !.log = IF sessionId # NoSessionId THEN @ ELSE s.array,
                       !.out = <<"changelog", Slice(s.sorted, offset, limit)>>]
    /\ UNCHANGED logRest

\* ChangeLog.clear(sessionId): the entries of one session, or all, are
\* removed; save
LogClear(sessionId) ==
    /\ audit.log # <<>>
    /\ LET rest == IF sessionId # NoSessionId
                   THEN SelectEntries(audit.log, sessionId, FALSE)
                   ELSE <<>>
       IN audit' = [audit EXCEPT
                       !.log = rest,
                       !.logFile = rest,
                       !.appended = IF sessionId # NoSessionId
                                    THEN SelectEntries(@, sessionId, FALSE)
                                    ELSE <<>>]
    /\ UNCHANGED logRest

\* SnapshotStore.save of an existing file: push, saveIndex
IndexSave(sessionId) ==
    /\ Len(audit.appended) + Len(audit.snapshots) < MaxEntries
    /\ LET e == NewEntry(sessionId, Len(audit.snapshots) + 1) IN
       audit' = [audit EXCEPT !.index = Append(@, e),
                              !.indexFile = Append(audit.index, e),
                              !.snapshots = Append(@, e)]
    /\ UNCHANGED logRest

\* SnapshotStore.list(sessionId)
IndexList(sessionId) ==
    /\ LET filtered == IF sessionId # NoSessionId
                       THEN SelectEntries(audit.index, sessionId, TRUE)
                       ELSE audit.index
           s == SortNewestFirst(filtered)
       IN audit' = [audit EXCEPT
                       !.index = IF sessionId # NoSessionId THEN @ ELSE s.array,
                       !.out = <<"snapshots", s.sorted>>]
    /\ UNCHANGED logRest

ListSessionIds == SessionIds \cup {NoSessionId}

LogNext ==
    \/ ClockTick
    \/ \E s \in SessionIds : LogAppend(s)
    \/ \E s \in ListSessionIds, limit \in {1, 50}, offset \in {0, 1} : LogList(s, limit, offset)
    \/ \E s \in ListSessionIds : LogClear(s)
    \/ \E s \in SessionIds : IndexSave(s)
    \/ \E s \in ListSessionIds : IndexList(s)

LogSpec == LogInit /\ [][LogNext]_vars

\* C28: the change log and the snapshot index are append-only.  In every
\* reachable state changelog.json holds the entries appended and not yet
\* cleared, in the order they were appended, and index.json holds the
\* snapshot entries in the order they were saved.
C28_AppendOnly ==
    /\ audit.logFile = audit.appended
    /\ audit.indexFile = audit.snapshots


(***************************************************************************)
(* file_read with line bounds.  A bound is <<n>> when the argument is      *)
(* given and <<>> when it is undefined.                                    *)
(***************************************************************************)
\* x ?? default
OrElse(x, default) == IF x = <<>> THEN default ELSE x[1]

\* a slice that leaves out the line at endLine
SelectedLines_Exclusive(lines, start, end) == SubSeq(lines, start + 1, end - 1)

\* lines.slice(start, end)
SelectedLines(lines, start, end) == SubSeq(lines, start + 1, end)

\* fileReadTool.execute after the sandbox test, line bounds included
FileReadRangeIO(fsys, input, startLine, endLine) ==
    LET abs == Resolve(Workspace, input.path) IN
    IF IsDirectory(fsys, abs) THEN Err("NotAFile")
    ELSE IF ~Exists(fsys, abs) THEN Err("NotFound")
    ELSE LET lines == Utf8Decode(fsys[abs])
             totalLines == Len(lines)
             s1 == OrElse(startLine, 1)
             e1 == OrElse(endLine, totalLines)
             start == (IF s1 > 1 THEN s1 ELSE 1) - 1
             end == IF e1 < totalLines THEN e1 ELSE totalLines
         IN IF startLine = <<>> /\ endLine = <<>>
            THEN Ok([created |-> FALSE, content |-> lines])
            ELSE IF start >= end THEN Err("InvalidRange")
            ELSE Ok([created |-> FALSE, content |-> SelectedLines(lines, start, end)])

LineBounds == {<<>>} \cup {<<n>> : n \in (0 - 1)..(MaxLines + 1)}

ReadInit ==
    /\ \E text \in LineSeqs(1) : fs = (Resolve(Workspace, PathA) :> text)
    /\ store = EmptyStore
    /\ changeLog = <<>>
    /\ busySessions = {}
    /\ sessions = <<>>
    /\ pc = [i \in Invocations |-> "idle"]
    /\ sess = [i \in Invocations |-> "main"]
    /\ call = [i \in Invocations |-> NoCall]
    /\ res = [i \in Invocations |-> NoResult]
    /\ steps = [i \in Invocations |-> <<>>]
    /\ evDone = [i \in Invocations |-> 0]
    /\ evError = [i \in Invocations |-> 0]
    /\ resp = [i \in Invocations |-> "none"]
    /\ nCalls = 0
    /\ nDirect = 0
    /\ rt = NoScript
    /\ app = [NoApp EXCEPT !.op = "ready"]
    /\ wire = NoWire
    /\ loop = NoLoop
    /\ conn = NoConn
    /\ saved = <<>>
    /\ audit = NoAudit

\* file_read(p, startLine, endLine)
ReadRun(p, startLine, endLine) ==
    /\ app.op = "ready"
    /\ SandboxOnlyPre(ToolInput(p, Undef, NoText)) = "ok"
    /\ app' = [op |-> "file_read", old |-> <<startLine, endLine>>, new |-> p,
               out |-> FileReadRangeIO(fs, ToolInput(p, Undef, NoText), startLine, endLine)]
    /\ UNCHANGED <<fs, store, changeLog, busySessions, sessions, pc, sess, call, res, steps, evDone, evError, resp, nCalls, nDirect, rt, wire, loop, conn, saved, audit>>

ReadNext ==
    \E p \in {PathA, PathB}, startLine \in LineBounds, endLine \in LineBounds :
        ReadRun(p, startLine, endLine)

ReadSpec == ReadInit /\ [][ReadNext]_vars

Clamp(n, lo, hi) == IF n < lo THEN lo ELSE IF n > hi THEN hi ELSE n

\* C31 as stated: file_read with bounds.  An absent file gives NotFound and
\* no content.  For 1 <= startLine <= endLine <= totalLines the content is
\* exactly the lines startLine..endLine.  Otherwise both bounds (1 and
\* totalLines where not given) are clamped to [1, totalLines]: a clamped
\* start before the clamped end gives the lines between them, both included,
\* and a clamped start not before the clamped end gives InvalidRange.
C31_ClampedRange ==
    app.op = "file_read" =>
        LET abs == Resolve(Workspace, app.new)
            startLine == app.old[1]
            endLine == app.old[2]
        IN IF ~Exists(fs, abs)
           THEN ~app.out.success /\ app.out.error = "NotFound" /\ app.out.content = NoText
           ELSE LET lines == fs[abs]
                    total == Len(lines)
                    cs == Clamp(OrElse(startLine, 1), 1, total)
                    ce == Clamp(OrElse(endLine, total), 1, total)
                    inRange == /\ startLine # <<>> /\ endLine # <<>>
                               /\ 1 <= startLine[1] /\ startLine[1] <= endLine[1]
                               /\ endLine[1] <= total
                IN IF startLine = <<>> /\ endLine = <<>>
                   THEN app.out.success /\ app.out.content = lines
                   ELSE IF inRange
                   THEN app.out.success
                        /\ app.out.content = SubSeq(lines, startLine[1], endLine[1])
                   ELSE IF cs < ce
                   THEN app.out.success /\ app.out.content = SubSeq(lines, cs, ce)
                   ELSE ~app.out.success /\ app.out.error = "InvalidRange"

\* C31: file_read with bounds.  An absent file gives NotFound and no
\* content.  A startLine below 1 (or not given) counts as 1 and an endLine
\* above totalLines (or not given) as totalLines; when the start is then at
\* most the end the content is exactly the lines start..end, both included,
\* and otherwise (a startLine beyond the file or beyond endLine, an endLine
\* below 1) the result is InvalidRange.
C31_ReadRange ==
    app.op = "file_read" =>
        LET abs == Resolve(Workspace, app.new)
            startLine == app.old[1]
            endLine == app.old[2]
        IN IF ~Exists(fs, abs)
           THEN ~app.out.success /\ app.out.error = "NotFound" /\ app.out.content = NoText
           ELSE LET lines == fs[abs]
                    total == Len(lines)
                    from == IF OrElse(startLine, 1) < 1 THEN 1 ELSE OrElse(startLine, 1)
                    to == IF OrElse(endLine, total) > total THEN total
                          ELSE OrElse(endLine, total)
                IN IF from <= to
                   THEN app.out.success /\ app.out.content = SubSeq(lines, from, to)
                   ELSE ~app.out.success /\ app.out.error = "InvalidRange"

\* lines 2..3 of a file of three lines were read
C31_Witness ==
    /\ app.op = "file_read"
    /\ app.old = << <<2>>, <<3>> >>
    /\ app.out.success
    /\ Len(app.out.content) = 2


(***************************************************************************)
(* file_rename step by step.  execute awaits stat, access, mkdir and       *)
(* rename in turn; between the checks and the rename the event loop runs   *)
(* other handlers, here a file_write of another session or a file.write.   *)
(***************************************************************************)
RenameInit ==
    /\ fs = InitialFs
    /\ store = EmptyStore
    /\ changeLog = <<>>
    /\ busySessions = {}
    /\ sessions = <<>>
    /\ pc = [i \in Invocations |-> "idle"]
    /\ sess = [i \in Invocations |-> "main"]
    /\ call = [i \in Invocations |-> NoCall]
    /\ res = [i \in Invocations |-> NoResult]
    /\ steps = [i \in Invocations |-> <<>>]
    /\ evDone = [i \in Invocations |-> 0]
    /\ evError = [i \in Invocations |-> 0]
    /\ resp = [i \in Invocations |-> "none"]
    /\ nCalls = 0
    /\ nDirect = 0
    /\ rt = [NoScript EXCEPT !.stage = "start"]
    /\ app = NoApp
    /\ wire = NoWire
    /\ loop = NoLoop
    /\ conn = NoConn
    /\ saved = <<>>
    /\ audit = NoAudit

\* fs.stat(absoluteOld) and fs.access(absoluteNew): the error returned, or "ok"
FileRenameChecks(fsys, input) ==
    LET old == Resolve(Workspace, input.path)
        new == Resolve(Workspace, input.newPath) IN
    IF IsDirectory(fsys, old) THEN "NotAFile"
    ELSE IF ~Exists(fsys, old) THEN "NotFound"
    ELSE IF Exists(fsys, new) \/ IsDirectory(fsys, new) THEN "Exists"
    ELSE "ok"

\* fs.mkdir(dirname) and fs.rename(absoluteOld, absoluteNew) on the
\* filesystem as it is by then: rename(2) replaces an existing file
FileRenameCommit(fsys, input) ==
    LET old == Resolve(Workspace, input.path)
        new == Resolve(Workspace, input.newPath) IN
    IF AncestorIsFile(fsys, new) \/ IsDirectory(fsys, new) \/ IsDirectory(fsys, old)
    THEN [fs |-> fsys, res |-> Err("IOError")]
    ELSE IF ~Exists(fsys, old) THEN [fs |-> fsys, res |-> Err("NotFound")]
    ELSE [fs |-> WriteFile(Unlink(fsys, old), new, fsys[old]), res |-> Ok(NoExtra)]

\* execute up to the end of its checks
RenameCheck(oldPath, newPath) ==
    /\ rt.stage = "start"
    /\ LET input == ToolInput(oldPath, newPath, NoText)
           pre == IF FileRenamePre(input) # "ok" THEN FileRenamePre(input)
                  ELSE FileRenameChecks(fs, input)
       IN /\ call' = [call EXCEPT ![1] = [tool |-> "file_rename", input |-> input]]
          /\ res' = [res EXCEPT ![1] = IF pre = "ok" THEN NoResult ELSE Err(pre)]
          /\ rt' = [rt EXCEPT !.stage = IF pre = "ok" THEN "checked" ELSE "returned"]
    /\ UNCHANGED <<fs, store, changeLog, busySessions, sessions, pc, sess, steps, evDone, evError, resp, nCalls, nDirect, app, wire, loop, conn, saved, audit>>

\* mkdir and rename complete and execute returns
RenameCommit ==
    /\ rt.stage = "checked"
    /\ fs' = FileRenameCommit(fs, call[1].input).fs
    /\ res' = [res EXCEPT ![1] = FileRenameCommit(fs, call[1].input).res]
    /\ rt' = [rt EXCEPT !.stage = "returned"]
    /\ UNCHANGED <<store, changeLog, busySessions, sessions, pc, sess, call, steps, evDone, evError, resp, nCalls, nDirect, app, wire, loop, conn, saved, audit>>

\* another handler's file_write runs to its end
OtherWrite(pth, text) ==
    /\ rt.stage \in {"start", "checked"}
    /\ nDirect < MaxDirect
    /\ nDirect' = nDirect + 1
    /\ fs' = ToolExecute("file_write", fs, ToolInput(pth, Undef, text)).fs
    /\ UNCHANGED <<store, changeLog, busySessions, sessions, pc, sess, call, res, steps, evDone, evError, resp, nCalls, rt, app, wire, loop, conn, saved, audit>>

PathC == << <<"c">> >>                        \* c

RenameNext ==
    \/ \E oldPath \in {PathA, PathB, PathEnv}, newPath \in {PathA, PathB, PathC, PathUnderA} :
          RenameCheck(oldPath, newPath)
    \/ RenameCommit
    \/ \E pth \in {PathA, PathB, PathC}, text \in {TextX, TextY, TextEmpty} :
          OtherWrite(pth, text)

RenameSpec == RenameInit /\ [][RenameNext]_vars

\* C33: file_rename never replaces an existing destination.  When the
\* destination exists as the rename takes effect, the call fails and the
\* filesystem is unchanged.
C33_RenameNeverReplaces ==
    [][(/\ rt.stage = "checked"
        /\ rt'.stage = "returned"
        /\ Exists(fs, Resolve(Workspace, call[1].input.newPath))) =>
          /\ ~res'[1].success
          /\ fs' = fs]_vars


(***************************************************************************)
(* file_search: the loop over the lines of the files found.  The lines are *)
(* taken in the order the loop meets them; a line matches the pattern or   *)
(* does not.                                                               *)
(***************************************************************************)
\* regex.test(line), for the pattern x
LineMatches(line) == line = "x"

RECURSIVE SearchLoop(_, _, _, _)
\* for (i ...) { if (matches.length >= maxResults) break; if (regex.test(line)) matches.push(...) }
SearchLoop(lines, i, matches, maxResults) ==
    IF i > Len(lines) \/ Len(matches) >= maxResults THEN matches
    ELSE SearchLoop(lines, i + 1,
                    IF LineMatches(lines[i]) THEN Append(matches, i) ELSE matches,
                    maxResults)

\* truncated: matches.length >= maxResults
Truncated(lines, matches, maxResults) == Len(matches) >= maxResults

\* the result of execute
FileSearchResult(lines, maxResults) ==
    LET matches == SearchLoop(lines, 1, <<>>, maxResults) IN
    [matches |-> matches, matchCount |-> Len(matches),
     truncated |-> Truncated(lines, matches, maxResults)]

SearchInit ==
    /\ fs = InitialFs
    /\ store = EmptyStore
    /\ changeLog = <<>>
    /\ busySessions = {}
    /\ sessions = <<>>
    /\ pc = [i \in Invocations |-> "idle"]
    /\ sess = [i \in Invocations |-> "main"]
    /\ call = [i \in Invocations |-> NoCall]
    /\ res = [i \in Invocations |-> NoResult]
    /\ steps = [i \in Invocations |-> <<>>]
    /\ evDone = [i \in Invocations |-> 0]
    /\ evError = [i \in Invocations |-> 0]
    /\ resp = [i \in Invocations |-> "none"]
    /\ nCalls = 0
    /\ nDirect = 0
    /\ rt = NoScript
    /\ app = [NoApp EXCEPT !.op = "ready"]
    /\ wire = NoWire
    /\ loop = NoLoop
    /\ conn = NoConn
    /\ saved = <<>>
    /\ audit = NoAudit

\* file_search(pattern x, maxResults) over files holding these lines
SearchRun(lines, maxResults) ==
    /\ app.op = "ready"
    /\ app' = [op |-> "file_search", old |-> lines, new |-> maxResults,
               out |-> FileSearchResult(lines, maxResults)]
    /\ UNCHANGED <<fs, store, changeLog, busySessions, sessions, pc, sess, call, res, steps, evDone, evError, resp, nCalls, nDirect, rt, wire, loop, conn, saved, audit>>

SearchNext == \E lines \in LineSeqs(1), maxResults \in 1..MaxLines : SearchRun(lines, maxResults)

SearchSpec == SearchInit /\ [][SearchNext]_vars

MatchingLines(lines) == {i \in 1..Len(lines) : LineMatches(lines[i])}

\* C34: file_search returns at most maxResults matches, and truncated is
\* true exactly when there are matching lines that were not returned.
C34_TruncatedIffLeftOut ==
    app.op = "file_search" =>
        /\ Len(app.out.matches) <= app.new
        /\ app.out.truncated = (Cardinality(MatchingLines(app.old)) > Len(app.out.matches))


(***************************************************************************)
(* Where a session id ends up in the filesystem: the session file of       *)
(* SessionStore.save and the blob of SnapshotStore.save.  A session id is  *)
(* the sequence of its segments between path separators.                   *)
(***************************************************************************)
\* path.join(homedir(), ".webbot", "sessions")
SessionsDir == << <<"home">>, <<".webbot">>, <<"sessions">> >>

\* path.join(os.homedir(), ".webbot", "snapshots")
SnapshotBaseDir == << <<"home">>, <<".webbot">>, <<"snapshots">> >>

\* path.join(this.sessionsDir, `${session.id}.json`)
SessionFilePath(sessionId) ==
    NormalizeFrom(SessionsDir,
                  SubSeq(sessionId, 1, Len(sessionId) - 1)
                      \o << sessionId[Len(sessionId)] \o <<".json">> >>)

\* path.join(path.join(this.baseDir, sessionId), `${id}_${safeFileName}`)
SnapshotFilePath(sessionId, id, relativePath) ==
    Append(NormalizeFrom(SnapshotBaseDir, sessionId),
           <<id, "_">> \o SafeFileName(relativePath))

PathInit ==
    /\ fs = InitialFs
    /\ store = EmptyStore
    /\ changeLog = <<>>
    /\ busySessions = {}
    /\ sessions = <<>>
    /\ pc = [i \in Invocations |-> "idle"]
    /\ sess = [i \in Invocations |-> "main"]
    /\ call = [i \in Invocations |-> NoCall]
    /\ res = [i \in Invocations |-> NoResult]
    /\ steps = [i \in Invocations |-> <<>>]
    /\ evDone = [i \in Invocations |-> 0]
    /\ evError = [i \in Invocations |-> 0]
    /\ resp = [i \in Invocations |-> "none"]
    /\ nCalls = 0
    /\ nDirect = 0
    /\ rt = NoScript
    /\ app = [NoApp EXCEPT !.op = "ready"]
    /\ wire = NoWire
    /\ loop = NoLoop
    /\ conn = NoConn
    /\ saved = <<>>
    /\ audit = NoAudit

\* a turn of the session writes a snapshot blob and the session file
PathRun(sessionId, relativePath) ==
    /\ app.op = "ready"
    /\ app' = [op |-> "save", old |-> sessionId, new |-> relativePath,
               out |-> [session |-> SessionFilePath(sessionId),
                        blob |-> SnapshotFilePath(sessionId, "id", relativePath)]]
    /\ UNCHANGED <<fs, store, changeLog, busySessions, sessions, pc, sess, call, res, steps, evDone, evError, resp, nCalls, nDirect, rt, wire, loop, conn, saved, audit>>

\* params.sessionId: any string the client sends
ClientSessionIds ==
    UNION {[1..n -> { <<"main">>, DOTDOT, <<"snapshots">> }] : n \in 1..MaxLines}

PathNext ==
    \E sessionId \in ClientSessionIds, relativePath \in {PathA, PathEnv, PathUnderA} :
        PathRun(sessionId, relativePath)

PathSpec == PathInit /\ [][PathNext]_vars

\* abs lies below dir
Below(abs, dir) == Len(abs) > Len(dir) /\ SubSeq(abs, 1, Len(dir)) = dir

\* C39: for every session id a client supplies, the session file lies
\* in the sessions directory and the snapshot blob in the snapshot store
\* directory.
C39_SessionFilesStayInside ==
    app.op = "save" =>
        /\ Below(app.out.session, SessionsDir)
        /\ Below(app.out.blob, SnapshotBaseDir)

====
